---------------------------- MODULE Spec2Model ----------------------------
(***************************************************************************)
(* Model of the resource-aware parallel processing engine of the video     *)
(* ingestion pipeline: ResourceManager (concurrency ceiling),              *)
(* ParallelProcessor (batch / game / angle tasks gated by one semaphore),  *)
(* the compression fallback of video_processor, the retrying upload and    *)
(* the client cache of s3_uploader, and the two workflows of main.py that  *)
(* start the work: the input-video batch and the camera-file games.        *)
(*                                                                         *)
(* asyncio runs one task at a time and switches tasks only at an await     *)
(* that suspends, so every action below is one stretch of code between two *)
(* suspension points of one task.                                          *)
(***************************************************************************)
EXTENDS Integers, Sequences, FiniteSets, TLC

(***************************************************************************)
(* Bounds of the model.                                                    *)
(***************************************************************************)
\* os.cpu_count() readings range over 0..MaxCpu (and None)
MaxCpu == 10
\* available memory is measured in 1/MemUnitsPerGB GB, 0..MaxMemUnits
MemUnitsPerGB == 2
MaxMemUnits == 21
\* a batch holds at most MaxJobs jobs and MaxAngleTasks angle tasks in all
MaxJobs == 2
MaxAngleTasks == 3

(***************************************************************************)
(* Python values: a call either returns a value or raises.                 *)
(***************************************************************************)
Ret(v) == [exc |-> FALSE, val |-> v]
Raise == [exc |-> TRUE, val |-> 0]
\* Optional[int]: None or an integer
None == [some |-> FALSE, val |-> 0]
Some(v) == [some |-> TRUE, val |-> v]

Min(a, b) == IF a <= b THEN a ELSE b
Max(a, b) == IF a >= b THEN a ELSE b

VARIABLES
    \* --- ResourceManager: raw outcomes of the three system queries
    cpu_reading,      \* os.cpu_count(): None or Some(n)
    mem_reading,      \* psutil.virtual_memory(): Raise or Ret(available units)
    gpu_reading,      \* subprocess.run(['nvidia-smi']): "rc0","rc_nonzero","timeout","not_found"
    probe_pc,         \* "start" | "done": position of a get_max_concurrent_ffmpeg call
    recommended,      \* what that call returned (Ret(n)) or Raise
    \* --- ParallelProcessor
    override,         \* the max_concurrent argument: None or Some(n)
    gpu_available,    \* config.gpu_available
    max_concurrent,   \* self.max_concurrent
    semaphore,        \* value of self.semaphore (free slots)
    batch_pc,         \* process_games: "constructed" | "running" | "returned"
    total_jobs, completed_jobs, failed_jobs,
    \* --- GameJob (one per job index)
    video_files,      \* job -> set of angles (keys of job.video_files)
    job_status,       \* job.status
    error_message,    \* job.error_message: number of failed angles, 0 for None
    angle_status,     \* job.angle_status
    job_pc,           \* _process_game task: "created" | "gathering" | "done"
    \* --- _process_angle tasks
    pc,               \* job -> angle -> position of the angle task
    \* --- environment
    files,            \* transient files on disk: set of <<job, angle, kind>>
    s3_objects,       \* keys present in the bucket: set of <<job, angle>>
    dest_existed,     \* the keys that were present when the batch started
    \* --- one angle pipeline observed in detail (SpecAngle)
    calls,            \* the calls _process_angle made so far, in order:
                      \* <<callee, whether it returned normally>>
    resolution,       \* what get_resolution returned
    compress_call,    \* inputs and result of the compress_video call
    upload_call,      \* inputs and result of the upload_to_s3 call
    \* --- S3Uploader: the class-level client cache
    hash_of,          \* hash(): configuration key -> hash value, fixed for the process
    _client,          \* S3Uploader._client: 0 for None, else the n-th boto3 client
    _client_config_hash,  \* S3Uploader._client_config_hash: None or Some(hash)
    constructed,      \* the S3Uploader constructions made so far, in order
    validation,       \* the last validate_aws_credentials call and its result
    \* --- main.py: the input-video workflow around the ParallelProcessor
    aws_configured,   \* config.aws_access_key and config.aws_secret_key are set
    input_processing_active,  \* the global flag
    active_coordinators,  \* process_input_jobs_parallel tasks created and not
                      \* yet past the reset of the flag in their finally
    start_response,   \* what the last POST /api/input-videos/process answered
    status_response,  \* the last GET /api/input-videos/status: its max_concurrent,
                      \* and whether a ParallelProcessor had been built by then
    \* --- main.py: the camera-file workflow (one game, two camera angles)
    camera_setup,     \* config.side is set; number of camera files found
    processing_active,  \* the global flag of the camera-file workflow
    camera_response,  \* what the last POST /api/process/start answered
    game_status,      \* game.status, "none" when no game was created
    camera_pc,        \* process_all_games task: "none" | "created" | "gathering" | "finished"
    cam_pc,           \* camera angle -> position of its process_single_angle task
    \* --- the progress events of a batch (SpecEvents)
    events,           \* the messages handed to the subscriber so far:
                      \* <<stage, job, angle>>, job 0 and angle "" when absent
    sub_raised,       \* the subscriber raised at some event
    tool_failed,      \* the angle tasks <<job, angle>> one of whose own
                      \* calls (tool, probe, unlink) failed
    \* --- upload_manager.py: one BasketballUploader and the directory it scans
    test_mode,        \* self.test_mode
    dir_exists,       \* Path(directory_path).exists()
    local_files,      \* the names of the files in the directory
    oversized,        \* the files larger than self.max_file_size
    bucket_ok,        \* what create_s3_bucket_if_not_exists returns
    s3_failing,       \* the files for which s3_client.upload_file raises
    undeletable,      \* the files for which Path.unlink raises PermissionError
    up_pc,            \* scan_and_upload_directory: "idle" | "uploading" | "returned"
    scan_video_files, \* the part of its video_files list not yet iterated
    successful_uploads, failed_uploads,
    upload_attempts,  \* file name -> number of upload_video calls made for it
    scan_result,      \* what scan_and_upload_directory returned
    cleanup_response, \* the last direct cleanup_local_file call and its result
    cleanup_calls,    \* number of direct cleanup_local_file calls
    scanned,          \* the files that were in the directory when the scan began
    \* --- main.py: the registry of input-video jobs and its batches
    job_objects,      \* the GameJob objects created so far: game_id, video_files
    obj_status,       \* object -> job.status
    input_video_jobs, \* the dict: game_id -> object
    batch_jobs,       \* the pending_jobs list handed to the coordinator task
    coord_pc,         \* process_input_jobs_parallel: "none" | "created" |
                      \* "gathering" | "failed" | "ended"
    game_task,        \* object -> its _process_game task: "none" | "created" |
                      \* "gathering" | "done"
    angle_task,       \* object -> angle -> position of its _process_angle task
    batches,          \* number of batches started
    selected,         \* object -> number of batches it was handed to
    \* --- web_ui.py: the /upload route and its worker threads
    is_uploading,     \* upload_status['is_uploading']
    upload_message,   \* upload_status['message'], by kind
    request_pc,       \* request -> position of its start_upload handler
    worker_pc,        \* request -> the upload_worker thread it started
    \* --- download_from_s3.py: one download_file_with_resume call
    expected_size,    \* the size listed for the key, in chunks
    server_size,      \* the size of the object get_object serves
    local_file,       \* the local file: None, or Some(size in chunks)
    dl_attempt,       \* the loop variable attempt of the retry loop
    dl_pc,            \* "called" | "loop" | "returned" | "raised"
    dl_result,        \* the returned value
    request_count,    \* number of get_object calls made
    last_request      \* the last get_object call: the size of the local file
                      \* when the attempt began, the Range start (None for a
                      \* request without Range) and the mode of open()

probe_vars == <<cpu_reading, mem_reading, gpu_reading, probe_pc, recommended>>
proc_vars == <<override, gpu_available, max_concurrent, semaphore, batch_pc,
               total_jobs, completed_jobs, failed_jobs>>
job_vars == <<video_files, job_status, error_message, angle_status, job_pc>>
angle_vars == <<pc>>
env_vars == <<files, s3_objects, dest_existed>>
obs_vars == <<calls, resolution, compress_call, upload_call>>
client_vars == <<hash_of, _client, _client_config_hash, constructed, validation>>
web_vars == <<aws_configured, input_processing_active, active_coordinators,
              start_response, status_response>>
camera_vars == <<camera_setup, processing_active, camera_response, game_status,
                 camera_pc, cam_pc>>
event_vars == <<events, sub_raised, tool_failed>>
upload_vars == <<test_mode, dir_exists, local_files, oversized, bucket_ok,
                 s3_failing, undeletable, up_pc, scan_video_files,
                 successful_uploads, failed_uploads, upload_attempts,
                 scan_result, cleanup_response, cleanup_calls, scanned>>
registry_vars == <<job_objects, obj_status, input_video_jobs, batch_jobs,
                   coord_pc, game_task, angle_task, batches, selected>>
webui_vars == <<is_uploading, upload_message, request_pc, worker_pc>>
download_vars == <<expected_size, server_size, local_file, dl_attempt, dl_pc,
                   dl_result, request_count, last_request>>
tool_vars == <<upload_vars, registry_vars, webui_vars, download_vars>>
app_vars == <<client_vars, web_vars, camera_vars, event_vars, tool_vars>>
vars == <<app_vars, probe_vars, proc_vars, job_vars, angle_vars, env_vars, obs_vars>>

(***************************************************************************)
(* ResourceManager                                                         *)
(***************************************************************************)
CpuReadings == {None} \cup {Some(n) : n \in 0..MaxCpu}
MemReadings == {Raise} \cup {Ret(u) : u \in 0..MaxMemUnits}
GpuReadings == {"rc0", "rc_nonzero", "timeout", "not_found"}

\* return os.cpu_count() or 2
get_cpu_count(reading) ==
    IF reading.some /\ reading.val # 0 THEN Ret(reading.val) ELSE Ret(2)

\* mutant: no try/except around the psutil query
get_available_memory_gb_noexcept(reading) == reading

\* try: mem.available / 1024**3  except: 4.0      (in 1/MemUnitsPerGB GB)
get_available_memory_gb(reading) ==
    IF reading.exc THEN Ret(4 * MemUnitsPerGB) ELSE Ret(reading.val)

\* try: run nvidia-smi, returncode == 0  except: False
check_gpu_available(reading) ==
    IF reading \in {"timeout", "not_found"} THEN Ret(FALSE)
    ELSE Ret(reading = "rc0")

\* mutant: the final max(1, min(recommended, 4)) is missing
get_max_concurrent_ffmpeg_noclamp(cpuR, memR, gpuR) ==
    LET cpu_count == get_cpu_count(cpuR)
        available_mem_gb == get_available_memory_gb(memR)
        has_gpu == check_gpu_available(gpuR)
    IN  IF cpu_count.exc \/ available_mem_gb.exc \/ has_gpu.exc THEN Raise
        ELSE LET mem_based_limit == available_mem_gb.val \div (2 * MemUnitsPerGB)
                 cpu_based_limit == Max(1, cpu_count.val \div 2)
             IN  Ret(IF has_gpu.val THEN Min(mem_based_limit, 2)
                     ELSE Min(mem_based_limit, cpu_based_limit))

\* mutant: gpu_limit is 4 instead of 2
get_max_concurrent_ffmpeg_gpu4(cpuR, memR, gpuR) ==
    LET cpu_count == get_cpu_count(cpuR)
        available_mem_gb == get_available_memory_gb(memR)
        has_gpu == check_gpu_available(gpuR)
    IN  IF cpu_count.exc \/ available_mem_gb.exc \/ has_gpu.exc THEN Raise
        ELSE LET mem_based_limit == available_mem_gb.val \div (2 * MemUnitsPerGB)
                 cpu_based_limit == Max(1, cpu_count.val \div 2)
                 rec == IF has_gpu.val THEN Min(mem_based_limit, 4)
                        ELSE Min(mem_based_limit, cpu_based_limit)
             IN  Ret(Max(1, Min(rec, 4)))

\* an exception of a callee propagates: the function has no try of its own
get_max_concurrent_ffmpeg(cpuR, memR, gpuR) ==
    LET cpu_count == get_cpu_count(cpuR)
        available_mem_gb == get_available_memory_gb(memR)
        has_gpu == check_gpu_available(gpuR)
    IN  IF cpu_count.exc \/ available_mem_gb.exc \/ has_gpu.exc THEN Raise
        ELSE LET mem_based_limit == available_mem_gb.val \div (2 * MemUnitsPerGB)
                 cpu_based_limit == Max(1, cpu_count.val \div 2)
                 gpu_limit == 2
                 rec == IF has_gpu.val THEN Min(mem_based_limit, gpu_limit)
                        ELSE Min(mem_based_limit, cpu_based_limit)
             IN  Ret(Max(1, Min(rec, 4)))


(***************************************************************************)
(* video_processor                                                         *)
(***************************************************************************)
\* probed (width, height) samples around the 4K boundary
Widths == {1920, 3839, 3840}
Heights == {1080, 2159, 2160}

\* mutant: 4K only when both dimensions reach it
is_4k_or_higher_both(width, height) == width >= 3840 /\ height >= 2160

is_4k_or_higher(width, height) == width >= 3840 \/ height >= 2160

\* get_resolution returns (None, None) or the (width, height) of the stream
NoResolution == [some |-> FALSE, width |-> 0, height |-> 0]
Resolution(w, h) == [some |-> TRUE, width |-> w, height |-> h]
ProbeResults == {NoResolution} \cup {Resolution(w, h) : w \in Widths, h \in Heights}

\* mutant: a failed hardware transcode is final, no software fallback
compress_video_nofallback(use_gpu, gpu_check, gpu_ok, cpu_ok) ==
    IF use_gpu /\ gpu_check
    THEN [exc |-> ~gpu_ok, ran |-> <<"gpu">>]
    ELSE [exc |-> ~cpu_ok, ran |-> <<"cpu">>]

\* compress_video(use_gpu): gpu_check is check_gpu_available() of video_processor,
\* gpu_ok is what _compress_with_gpu returned, cpu_ok whether _compress_with_cpu
\* returned (it raises RuntimeError otherwise).
\* Returns whether it raised and the transcoders it ran, in order.
compress_video(use_gpu, gpu_check, gpu_ok, cpu_ok) ==
    IF use_gpu /\ gpu_check
    THEN IF gpu_ok THEN [exc |-> FALSE, ran |-> <<"gpu">>]
         ELSE [exc |-> ~cpu_ok, ran |-> <<"gpu", "cpu">>]
    ELSE [exc |-> ~cpu_ok, ran |-> <<"cpu">>]

(***************************************************************************)
(* s3_uploader                                                             *)
(***************************************************************************)
\* default of upload_file's max_retries parameter
MAX_RETRIES == 3
\* upload_file: 100 * 1024 * 1024 bytes
MULTIPART_THRESHOLD == 104857600
\* st_size of the artifact handed to upload_file, around the threshold
FileSizes == {MULTIPART_THRESHOLD - 1, MULTIPART_THRESHOLD, MULTIPART_THRESHOLD + 1}

\* outcome of one s3_client.upload_file call: success, or an exception.
\* The loop looks only at the exception's class (ClientError or not); what
\* failed is either transient (a timeout, an unreachable endpoint, a 5xx)
\* or not retryable (permission denied).  The library decides which class a
\* failure arrives in, so every combination is an outcome.
AttemptOutcomes ==
    {"ok", "ClientError/transient", "ClientError/denied",
     "Exception/transient", "Exception/denied"}
ClientError == {"ClientError/transient", "ClientError/denied"}
OutcomeSeqs == [1..MAX_RETRIES -> AttemptOutcomes]

\* mutant: the last failed attempt is swallowed and the loop falls through
RECURSIVE _simple_upload_noraise(_, _, _)
_simple_upload_noraise(outcomes, attempt, max_retries) ==
    IF attempt >= max_retries
    THEN [exc |-> FALSE, val |-> FALSE, attempts |-> attempt, sleeps |-> <<>>]
    ELSE LET o == outcomes[attempt + 1] IN
         IF o = "ok"
         THEN [exc |-> FALSE, val |-> TRUE, attempts |-> attempt + 1, sleeps |-> <<>>]
         ELSE IF o \in ClientError
         THEN LET r == _simple_upload_noraise(outcomes, attempt + 1, max_retries)
              IN  IF attempt = max_retries - 1 THEN r
                  ELSE [r EXCEPT !.sleeps = <<2 ^ attempt>> \o @]
         ELSE [exc |-> TRUE, val |-> FALSE, attempts |-> attempt + 1, sleeps |-> <<>>]

\* for attempt in range(max_retries): try upload, return True;
\* except ClientError: raise on the last attempt, else sleep(2 ** attempt);
\* any other exception leaves the loop at once.  return False after the loop.
\* attempts counts the s3_client.upload_file calls made, sleeps lists the
\* asyncio.sleep arguments in order.
RECURSIVE _simple_upload(_, _, _)
_simple_upload(outcomes, attempt, max_retries) ==
    IF attempt >= max_retries
    THEN [exc |-> FALSE, val |-> FALSE, attempts |-> attempt, sleeps |-> <<>>]
    ELSE LET o == outcomes[attempt + 1] IN
         IF o = "ok"
         THEN [exc |-> FALSE, val |-> TRUE, attempts |-> attempt + 1, sleeps |-> <<>>]
         ELSE IF o \in ClientError /\ attempt # max_retries - 1
         THEN LET r == _simple_upload(outcomes, attempt + 1, max_retries)
              IN  [r EXCEPT !.sleeps = <<2 ^ attempt>> \o @]
         ELSE [exc |-> TRUE, val |-> FALSE, attempts |-> attempt + 1, sleeps |-> <<>>]

\* the same loop around s3_client.upload_file(..., Config=config)
RECURSIVE _multipart_upload(_, _, _)
_multipart_upload(outcomes, attempt, max_retries) ==
    IF attempt >= max_retries
    THEN [exc |-> FALSE, val |-> FALSE, attempts |-> attempt, sleeps |-> <<>>]
    ELSE LET o == outcomes[attempt + 1] IN
         IF o = "ok"
         THEN [exc |-> FALSE, val |-> TRUE, attempts |-> attempt + 1, sleeps |-> <<>>]
         ELSE IF o \in ClientError /\ attempt # max_retries - 1
         THEN LET r == _multipart_upload(outcomes, attempt + 1, max_retries)
              IN  [r EXCEPT !.sleeps = <<2 ^ attempt>> \o @]
         ELSE [exc |-> TRUE, val |-> FALSE, attempts |-> attempt + 1, sleeps |-> <<>>]

\* mutant: multipart from the threshold on
upload_file_atleast(file_size, outcomes, max_retries) ==
    IF file_size >= 100 * 1024 * 1024
    THEN [strategy |-> "multipart",
          result |-> _multipart_upload(outcomes, 0, max_retries)]
    ELSE [strategy |-> "simple",
          result |-> _simple_upload(outcomes, 0, max_retries)]

\* upload_file: if file_size > 100 * 1024 * 1024: _multipart_upload
\* else: _simple_upload
upload_file(file_size, outcomes, max_retries) ==
    IF file_size > 100 * 1024 * 1024
    THEN [strategy |-> "multipart",
          result |-> _multipart_upload(outcomes, 0, max_retries)]
    ELSE [strategy |-> "simple",
          result |-> _simple_upload(outcomes, 0, max_retries)]

\* upload_to_s3(file_path, key, config) -> S3Uploader(config).upload_file(...)
upload_to_s3(file_size, outcomes) == upload_file(file_size, outcomes, MAX_RETRIES)

(***************************************************************************)
(* S3Uploader.__init__: one boto3 client cached at class level             *)
(***************************************************************************)
\* at most MaxConstructions S3Uploader objects are constructed in a run
MaxConstructions == 3
\* hash() takes its values in 1..MaxHash
MaxHash == 2

\* the (aws_access_key, aws_secret_key, s3_region) of a Config
ConfigKeys == {"AK1", "AK2"} \X {"SK1"} \X {"us-east-1", "eu-west-1"}
\* hash((access_key, secret_key, region)): some function of the tuple, the
\* same for the whole life of the process; two tuples may collide
HashFunctions == [ConfigKeys -> 1..MaxHash]

\* a constructor that creates a client on every call
S3Uploader_init_nocache(key, client, client_config_hash, fresh) ==
    [client |-> fresh, client_config_hash |-> Some(hash_of[key]), created |-> TRUE]
\* S3Uploader(config), given the class attributes before the call and the
\* client boto3.client(...) would return: the class attributes after the
\* call (self.s3_client is the client attribute) and whether a client was
\* created
S3Uploader_init(key, client, client_config_hash, fresh) ==
    LET current_hash == hash_of[key] IN
    IF client = 0 \/ client_config_hash # Some(current_hash)
    THEN [client |-> fresh, client_config_hash |-> Some(current_hash),
          created |-> TRUE]
    ELSE [client |-> client, client_config_hash |-> client_config_hash,
          created |-> FALSE]

\* the clients created so far are numbered 1, 2, ...
ClientsCreated == Cardinality({i \in DOMAIN constructed : constructed[i].created})

\* the effect of one S3Uploader(config) on the class attributes, recorded
Constructing(key) ==
    LET u == S3Uploader_init(key, _client, _client_config_hash, ClientsCreated + 1) IN
    /\ Len(constructed) < MaxConstructions
    /\ _client' = u.client
    /\ _client_config_hash' = u.client_config_hash
    /\ constructed' = Append(constructed,
                         [key |-> key, s3_client |-> u.client, created |-> u.created])
    /\ UNCHANGED hash_of

(***************************************************************************)
(* S3Uploader.test_connection and validate_aws_credentials                 *)
(***************************************************************************)
\* what s3_client.head_bucket(Bucket=...) does: returns, raises ClientError
\* with an error code, or raises an exception of another class
HeadBucketOutcomes ==
    {[raised |-> "none", code |-> "none"]}
    \cup {[raised |-> "ClientError", code |-> c] : c \in {"403", "404", "500"}}
    \cup {[raised |-> "EndpointConnectionError", code |-> "none"]}

\* test_connection: True, or the exception that leaves the call
test_connection(o) ==
    IF o.raised = "none" THEN [exc |-> FALSE, val |-> TRUE, error |-> "none"]
    ELSE IF o.raised = "ClientError"
    THEN IF o.code = "403"
         THEN [exc |-> TRUE, val |-> FALSE,
               error |-> "ValueError: AWS credentials are invalid or lack permissions"]
         ELSE IF o.code = "404"
         THEN [exc |-> TRUE, val |-> FALSE,
               error |-> "ValueError: S3 bucket does not exist"]
         ELSE [exc |-> TRUE, val |-> FALSE,
               error |-> "ValueError: AWS connection failed"]
    \* no handler for any other class: the exception propagates as it is
    ELSE [exc |-> TRUE, val |-> FALSE, error |-> o.raised]

\* validate_aws_credentials: True, or the exception logged and re-raised
validate_aws_credentials(o) ==
    LET r == test_connection(o) IN
    IF r.exc THEN r ELSE [exc |-> FALSE, val |-> TRUE, error |-> "none"]

NoValidation ==
    [called |-> FALSE, outcome |-> [raised |-> "none", code |-> "none"],
     exc |-> FALSE, val |-> FALSE, error |-> "none"]

\* no S3Uploader was constructed yet; hash() is some fixed function
ClientIdle ==
    /\ hash_of = [k \in ConfigKeys |-> 1]
    /\ _client = 0
    /\ _client_config_hash = None
    /\ constructed = <<>>
    /\ validation = NoValidation

NoStatus == [asked |-> FALSE, max_concurrent |-> 0, processor_built |-> FALSE]

\* no request of the input-video workflow was made yet
WebIdle ==
    /\ aws_configured = TRUE
    /\ input_processing_active = FALSE
    /\ active_coordinators = 0
    /\ start_response = "none"
    /\ status_response = NoStatus

\* AngleMapping.get_angles("LEFT"); "RIGHT" gives two other names
CameraAngles == {"far-left", "near-left"}

\* no camera, no game, no request of the camera-file workflow
CameraIdle ==
    /\ camera_setup = [side |-> FALSE, camera_files |-> 0]
    /\ processing_active = FALSE
    /\ camera_response = "none"
    /\ game_status = "none"
    /\ camera_pc = "none"
    /\ cam_pc = [a \in CameraAngles |-> "none"]

\* no message was handed to the subscriber
EventsIdle ==
    /\ events = {}
    /\ sub_raised = FALSE
    /\ tool_failed = {}

\* file names with a lower-case, an upper-case and a mixed-case video
\* extension, and one that is no video
FileNames == {"game1.mp4", "game2.MP4", "game3.Mp4", "notes.txt"}

NoCleanup ==
    [asked |-> FALSE, path |-> "", before |-> {}, after |-> {},
     unlink_raised |-> FALSE, val |-> FALSE, exc |-> FALSE]

\* no BasketballUploader call was made; the directory is empty
UploaderIdle ==
    /\ test_mode = FALSE
    /\ dir_exists = FALSE
    /\ local_files = {}
    /\ oversized = {}
    /\ bucket_ok = TRUE
    /\ s3_failing = {}
    /\ undeletable = {}
    /\ up_pc = "idle"
    /\ scan_video_files = <<>>
    /\ successful_uploads = <<>>
    /\ failed_uploads = <<>>
    /\ upload_attempts = [f \in FileNames |-> 0]
    /\ scan_result = None
    /\ cleanup_response = NoCleanup
    /\ cleanup_calls = 0
    /\ scanned = {}

\* no GameJob was created
RegistryIdle ==
    /\ job_objects = <<>>
    /\ obj_status = <<>>
    /\ input_video_jobs = <<>>
    /\ batch_jobs = {}
    /\ coord_pc = "none"
    /\ game_task = <<>>
    /\ angle_task = <<>>
    /\ batches = 0
    /\ selected = <<>>

\* at most MaxRequests POST /upload requests are made in a run
MaxRequests == 3
Requests == 1..MaxRequests

\* the web interface was started and no request was made
WebUiIdle ==
    /\ is_uploading = FALSE
    /\ upload_message = ""
    /\ request_pc = [r \in Requests |-> "none"]
    /\ worker_pc = [r \in Requests |-> "none"]

NoRequest == [before |-> None, range_start |-> None, mode |-> "none"]

\* download_file_with_resume was not called
DownloadIdle ==
    /\ expected_size = 0
    /\ server_size = 0
    /\ local_file = None
    /\ dl_attempt = 0
    /\ dl_pc = "none"
    /\ dl_result = FALSE
    /\ request_count = 0
    /\ last_request = NoRequest

ToolsIdle == UploaderIdle /\ RegistryIdle /\ WebUiIdle /\ DownloadIdle

AppIdle == ClientIdle /\ WebIdle /\ CameraIdle /\ EventsIdle /\ ToolsIdle

(***************************************************************************)
(* GameJob and the batch handed to process_games                           *)
(***************************************************************************)
AngleOrder == <<"farright", "farleft", "nearleft", "nearright">>
Angles == {AngleOrder[i] : i \in 1..4}
\* angle names are interchangeable in the code, so a job's video_files keys
\* are taken to be the first k angles
AnglePrefix(k) == {AngleOrder[i] : i \in 1..k}

RECURSIVE SumCard(_, _)
SumCard(f, n) == IF n = 0 THEN 0 ELSE Cardinality(f[n]) + SumCard(f, n - 1)

\* job lists of at most MaxJobs jobs and MaxAngleTasks angle tasks (jobs are
\* interchangeable too: larger jobs first), and the one-game batch of 4 angles.
\* create_input_job builds a job from the videos found for its date and
\* rejects a date without videos, so every job has 1 to 4 angles.
JobLists ==
    {f \in UNION {[1..n -> {AnglePrefix(k) : k \in 1..4}] : n \in 0..MaxJobs} :
        /\ SumCard(f, Len(f)) <= MaxAngleTasks
        /\ \A i \in 1..(Len(f) - 1) : Cardinality(f[i]) >= Cardinality(f[i + 1])}
    \cup {<<Angles>>}

Jobs == DOMAIN video_files
Tasks == {t \in Jobs \X Angles : t[2] \in video_files[t[1]]}

\* the angle tasks that hold a slot of the semaphore
InFlightPcs == {"extracting", "compressing", "uploading"}
TerminalPcs == {"returned", "raised"}
InFlight == {t \in Tasks : pc[t[1]][t[2]] \in InFlightPcs}

(***************************************************************************)
(* ParallelProcessor.__init__                                              *)
(***************************************************************************)
\* the observed compress_video / upload_to_s3 call before it was made
NoCompressCall ==
    [called |-> FALSE, use_gpu |-> FALSE, gpu_check |-> FALSE, gpu_ok |-> FALSE,
     cpu_ok |-> FALSE, exc |-> FALSE, ran |-> <<>>]
NoUploadCall ==
    [called |-> FALSE, artifact |-> "none", file_size |-> 0,
     outcomes |-> [i \in 1..MAX_RETRIES |-> "ok"], strategy |-> "none",
     exc |-> FALSE, val |-> FALSE, attempts |-> 0, sleeps |-> <<>>]

\* if max_concurrent is None: auto-detect, else use the argument as given
ResolveMaxConcurrent(ov, cpuR, memR, gpuR) ==
    IF ~ov.some THEN get_max_concurrent_ffmpeg(cpuR, memR, gpuR).val
    ELSE ov.val

\* Construction scenarios <<max_concurrent argument, os.cpu_count(),
\* virtual_memory(), nvidia-smi, config.gpu_available>>: overrides 0, 1, 8,
\* and auto-detection (readings that give 2 and 3)
Scenarios ==
    { <<Some(0), None, Raise, "not_found", FALSE>>,
      <<Some(1), None, Raise, "not_found", TRUE>>,
      <<Some(8), None, Raise, "not_found", FALSE>>,
      <<None, Some(8), Ret(4 * MemUnitsPerGB), "rc0", TRUE>>,
      <<None, Some(6), Ret(8 * MemUnitsPerGB), "rc_nonzero", FALSE>> }

\* State after ParallelProcessor(config, max_concurrent, callback) was
\* constructed for a list of freshly created GameJobs.  asyncio.Semaphore
\* rejects a negative value, so an accepted override is >= 0.
InitWith(scenarios, joblists, existing) ==
    /\ \E sc \in scenarios :
          /\ override = sc[1]
          /\ cpu_reading = sc[2] /\ mem_reading = sc[3] /\ gpu_reading = sc[4]
          /\ gpu_available = sc[5]
    /\ probe_pc = "done"
    /\ recommended = get_max_concurrent_ffmpeg(cpu_reading, mem_reading, gpu_reading)
    /\ max_concurrent = ResolveMaxConcurrent(override, cpu_reading, mem_reading, gpu_reading)
    /\ semaphore = max_concurrent
    /\ batch_pc = "constructed"
    /\ total_jobs = 0 /\ completed_jobs = 0 /\ failed_jobs = 0
    /\ video_files \in joblists
    /\ job_status = [j \in Jobs |-> "pending"]
    /\ error_message = [j \in Jobs |-> 0]
    /\ angle_status = [j \in Jobs |-> [a \in video_files[j] |-> "pending"]]
    /\ job_pc = [j \in Jobs |-> "none"]
    /\ pc = [j \in Jobs |-> [a \in video_files[j] |-> "pending"]]
    /\ files = {}
    /\ s3_objects = (IF existing THEN Tasks ELSE {})
    /\ dest_existed = s3_objects
    /\ AppIdle
    /\ calls = <<>>
    /\ resolution = NoResolution
    /\ compress_call = NoCompressCall
    /\ upload_call = NoUploadCall

\* a batch whose destination keys are all absent
Init == InitWith(Scenarios, JobLists, FALSE)

(***************************************************************************)
(* ParallelProcessor.process_games                                         *)
(***************************************************************************)
\* total_jobs = len(jobs); counters reset; one _process_game task per job
ProcessGames ==
    /\ batch_pc = "constructed"
    /\ batch_pc' = "running"
    /\ total_jobs' = Cardinality(Jobs)
    /\ completed_jobs' = 0
    /\ failed_jobs' = 0
    /\ job_pc' = [j \in Jobs |-> "created"]
    /\ UNCHANGED <<app_vars, probe_vars, override, gpu_available, max_concurrent, semaphore,
                   video_files, job_status, error_message, angle_status,
                   angle_vars, env_vars, obs_vars>>

\* await asyncio.gather(*tasks, return_exceptions=True) returns
ProcessGamesReturn ==
    /\ batch_pc = "running"
    /\ \A j \in Jobs : job_pc[j] = "done"
    /\ batch_pc' = "returned"
    /\ UNCHANGED <<app_vars, probe_vars, override, gpu_available, max_concurrent, semaphore,
                   total_jobs, completed_jobs, failed_jobs, job_vars,
                   angle_vars, env_vars, obs_vars>>

(***************************************************************************)
(* ParallelProcessor._process_game                                         *)
(***************************************************************************)
\* job.status = "processing"; one _process_angle task per angle; gather
StartGame(j) ==
    /\ batch_pc = "running"
    /\ job_pc[j] = "created"
    /\ job_status' = [job_status EXCEPT ![j] = "processing"]
    /\ job_pc' = [job_pc EXCEPT ![j] = "gathering"]
    /\ UNCHANGED <<app_vars, probe_vars, proc_vars, video_files, error_message,
                   angle_status, angle_vars, env_vars, obs_vars>>

Failures(j) == {a \in video_files[j] : pc[j][a] = "raised"}

\* mutant: gather without return_exceptions=True; the first exception ends
\* the job while sibling angle tasks are still running
FinishGame_failfast(j) ==
    /\ job_pc[j] = "gathering"
    /\ \/ \A a \in video_files[j] : pc[j][a] \in TerminalPcs
       \/ Failures(j) # {}
    /\ job_pc' = [job_pc EXCEPT ![j] = "done"]
    /\ IF Failures(j) # {}
       THEN /\ job_status' = [job_status EXCEPT ![j] = "error"]
            /\ error_message' = [error_message EXCEPT ![j] = Cardinality(Failures(j))]
            /\ failed_jobs' = failed_jobs + 1
            /\ UNCHANGED completed_jobs
       ELSE /\ job_status' = [job_status EXCEPT ![j] = "completed"]
            /\ completed_jobs' = completed_jobs + 1
            /\ UNCHANGED <<failed_jobs, error_message>>
    /\ UNCHANGED <<app_vars, probe_vars, override, gpu_available, max_concurrent, semaphore,
                   batch_pc, total_jobs, video_files, angle_status,
                   angle_vars, env_vars, obs_vars>>

\* mutant: the job fails only when every angle failed
FinishGame_allfail(j) ==
    /\ job_pc[j] = "gathering"
    /\ \A a \in video_files[j] : pc[j][a] \in TerminalPcs
    /\ job_pc' = [job_pc EXCEPT ![j] = "done"]
    /\ IF Failures(j) = video_files[j]
       THEN /\ job_status' = [job_status EXCEPT ![j] = "error"]
            /\ error_message' = [error_message EXCEPT ![j] = Cardinality(Failures(j))]
            /\ failed_jobs' = failed_jobs + 1
            /\ UNCHANGED completed_jobs
       ELSE /\ job_status' = [job_status EXCEPT ![j] = "completed"]
            /\ completed_jobs' = completed_jobs + 1
            /\ UNCHANGED <<failed_jobs, error_message>>
    /\ UNCHANGED <<app_vars, probe_vars, override, gpu_available, max_concurrent, semaphore,
                   batch_pc, total_jobs, video_files, angle_status,
                   angle_vars, env_vars, obs_vars>>

\* mutant: failed_jobs counts the failed angles, not the failed job
FinishGame_countangles(j) ==
    /\ job_pc[j] = "gathering"
    /\ \A a \in video_files[j] : pc[j][a] \in TerminalPcs
    /\ job_pc' = [job_pc EXCEPT ![j] = "done"]
    /\ IF Failures(j) # {}
       THEN /\ job_status' = [job_status EXCEPT ![j] = "error"]
            /\ error_message' = [error_message EXCEPT ![j] = Cardinality(Failures(j))]
            /\ failed_jobs' = failed_jobs + Cardinality(Failures(j))
            /\ UNCHANGED completed_jobs
       ELSE /\ job_status' = [job_status EXCEPT ![j] = "completed"]
            /\ completed_jobs' = completed_jobs + 1
            /\ UNCHANGED <<failed_jobs, error_message>>
    /\ UNCHANGED <<app_vars, probe_vars, override, gpu_available, max_concurrent, semaphore,
                   batch_pc, total_jobs, video_files, angle_status,
                   angle_vars, env_vars, obs_vars>>

\* results = await gather(*angle_tasks, return_exceptions=True) returns once
\* every angle task ended; failures = the results that are exceptions
FinishGame(j) ==
    /\ job_pc[j] = "gathering"
    /\ \A a \in video_files[j] : pc[j][a] \in TerminalPcs
    /\ job_pc' = [job_pc EXCEPT ![j] = "done"]
    /\ IF Failures(j) # {}
       THEN /\ job_status' = [job_status EXCEPT ![j] = "error"]
            /\ error_message' = [error_message EXCEPT ![j] = Cardinality(Failures(j))]
            /\ failed_jobs' = failed_jobs + 1
            /\ UNCHANGED completed_jobs
       ELSE /\ job_status' = [job_status EXCEPT ![j] = "completed"]
            /\ completed_jobs' = completed_jobs + 1
            /\ UNCHANGED <<failed_jobs, error_message>>
    /\ UNCHANGED <<app_vars, probe_vars, override, gpu_available, max_concurrent, semaphore,
                   batch_pc, total_jobs, video_files, angle_status,
                   angle_vars, env_vars, obs_vars>>

(***************************************************************************)
(* ParallelProcessor._process_angle                                        *)
(***************************************************************************)
Seg(j, a) == <<j, a, "segment">>
Comp(j, a) == <<j, a, "compressed">>

\* mutant: the gate admits a task when no slot is left
AcquireAngle_offbyone(j, a) ==
    /\ job_pc[j] = "gathering"
    /\ pc[j][a] = "pending"
    /\ semaphore >= 0
    /\ semaphore' = semaphore - 1
    /\ angle_status' = [angle_status EXCEPT ![j][a] = "processing"]
    /\ pc' = [pc EXCEPT ![j][a] = "extracting"]
    /\ UNCHANGED <<app_vars, probe_vars, override, gpu_available, max_concurrent, batch_pc,
                   total_jobs, completed_jobs, failed_jobs, video_files,
                   job_status, error_message, job_pc, env_vars, obs_vars>>

\* mutant: the status is not set on entry
AcquireAngle_nostatus(j, a) ==
    /\ job_pc[j] = "gathering"
    /\ pc[j][a] = "pending"
    /\ semaphore > 0
    /\ semaphore' = semaphore - 1
    /\ pc' = [pc EXCEPT ![j][a] = "extracting"]
    /\ UNCHANGED <<app_vars, probe_vars, override, gpu_available, max_concurrent, batch_pc,
                   total_jobs, completed_jobs, failed_jobs, video_files,
                   job_status, error_message, angle_status, job_pc, env_vars,
                   obs_vars>>

\* async with self.semaphore: the task proceeds once the value is positive;
\* angle_status = "processing"; extract_segment is started
AcquireAngle(j, a) ==
    /\ job_pc[j] = "gathering"
    /\ pc[j][a] = "pending"
    /\ semaphore > 0
    /\ semaphore' = semaphore - 1
    /\ angle_status' = [angle_status EXCEPT ![j][a] = "processing"]
    /\ pc' = [pc EXCEPT ![j][a] = "extracting"]
    /\ UNCHANGED <<app_vars, probe_vars, override, gpu_available, max_concurrent, batch_pc,
                   total_jobs, completed_jobs, failed_jobs, video_files,
                   job_status, error_message, job_pc, env_vars, obs_vars>>

\* mutant: the error path leaves without releasing the slot
AngleRaise_norelease(j, a) ==
    /\ angle_status' = [angle_status EXCEPT ![j][a] = "error"]
    /\ pc' = [pc EXCEPT ![j][a] = "raised"]
    /\ UNCHANGED semaphore

\* except Exception: angle_status = "error"; raise  -- and the semaphore's
\* __aexit__ releases the slot as the exception leaves the async with
AngleRaise(j, a) ==
    /\ angle_status' = [angle_status EXCEPT ![j][a] = "error"]
    /\ pc' = [pc EXCEPT ![j][a] = "raised"]
    /\ semaphore' = semaphore + 1

\* final_path of the angle task: compressed_path once compress_video
\* succeeded (the segment is unlinked right then), else segment_path
final_path(j, a) == IF Comp(j, a) \in files THEN Comp(j, a) ELSE Seg(j, a)

\* mutant: a probe that found no video stream is taken for a small video
Extracted_noprobecheck(j, a, extract_ok, left, probe) ==
    /\ pc[j][a] = "extracting"
    /\ IF ~extract_ok
       THEN /\ files' = IF left THEN files \cup {Seg(j, a)} ELSE files
            /\ AngleRaise(j, a)
       ELSE /\ files' = files \cup {Seg(j, a)}
            /\ pc' = [pc EXCEPT ![j][a] =
                         IF is_4k_or_higher(probe.width, probe.height)
                         THEN "compressing" ELSE "uploading"]
            /\ UNCHANGED <<angle_status, semaphore>>
    /\ UNCHANGED <<app_vars, probe_vars, override, gpu_available, max_concurrent, batch_pc,
                   total_jobs, completed_jobs, failed_jobs, video_files,
                   job_status, error_message, job_pc, s3_objects, dest_existed>>

\* extract_segment returns (extract_ok) or raises RuntimeError, a partial
\* file possibly left; on success get_resolution (probe) and the 4K decision
\* follow without suspension, and the next tool is started
Extracted(j, a, extract_ok, left, probe) ==
    /\ pc[j][a] = "extracting"
    /\ IF ~extract_ok
       THEN /\ files' = IF left THEN files \cup {Seg(j, a)} ELSE files
            /\ AngleRaise(j, a)
       ELSE IF ~probe.some
       THEN \* width is None: ValueError
            /\ files' = files \cup {Seg(j, a)}
            /\ AngleRaise(j, a)
       ELSE /\ files' = files \cup {Seg(j, a)}
            /\ pc' = [pc EXCEPT ![j][a] =
                         IF is_4k_or_higher(probe.width, probe.height)
                         THEN "compressing" ELSE "uploading"]
            /\ UNCHANGED <<angle_status, semaphore>>
    /\ UNCHANGED <<app_vars, probe_vars, override, gpu_available, max_concurrent, batch_pc,
                   total_jobs, completed_jobs, failed_jobs, video_files,
                   job_status, error_message, job_pc, s3_objects, dest_existed>>

ExtractReturn(j, a) ==
    /\ \/ \E left \in BOOLEAN : Extracted(j, a, FALSE, left, NoResolution)
       \/ \E probe \in ProbeResults : Extracted(j, a, TRUE, TRUE, probe)
    /\ UNCHANGED obs_vars

\* what compress_video can do, over every outcome of its tools
CompressResults ==
    {compress_video(gpu_available, c, g, s) : c \in BOOLEAN, g \in BOOLEAN, s \in BOOLEAN}

\* compress_video returns or raises (exc), a partial output possibly left;
\* on success final_path = compressed_path, segment_path.unlink() (which
\* raises unless unlink_ok), and upload_to_s3 is started
Compressed(j, a, exc, left, unlink_ok) ==
    /\ pc[j][a] = "compressing"
    /\ IF exc
       THEN /\ files' = IF left THEN files \cup {Comp(j, a)} ELSE files
            /\ AngleRaise(j, a)
       ELSE IF ~unlink_ok
       THEN /\ files' = files \cup {Comp(j, a)}
            /\ AngleRaise(j, a)
       ELSE /\ files' = (files \cup {Comp(j, a)}) \ {Seg(j, a)}
            /\ pc' = [pc EXCEPT ![j][a] = "uploading"]
            /\ UNCHANGED <<angle_status, semaphore>>
    /\ UNCHANGED <<app_vars, probe_vars, override, gpu_available, max_concurrent, batch_pc,
                   total_jobs, completed_jobs, failed_jobs, video_files,
                   job_status, error_message, job_pc, s3_objects, dest_existed>>

CompressReturn(j, a) ==
    /\ \E exc \in {r.exc : r \in CompressResults}, left \in BOOLEAN,
          unlink_ok \in BOOLEAN : Compressed(j, a, exc, left, unlink_ok)
    /\ UNCHANGED obs_vars

\* what upload_to_s3 can do, over every artifact size and every sequence of
\* attempt outcomes
UploadResults ==
    {upload_to_s3(size, o).result : size \in FileSizes, o \in OutcomeSeqs}
UploadReturns == {[exc |-> u.exc, val |-> u.val] : u \in UploadResults}

\* upload_to_s3 returns r.val or raises (r.exc); on success
\* final_path.unlink() (which raises unless unlink_ok),
\* angle_status = "completed", and the slot is released on leaving the block
Uploaded(j, a, r, unlink_ok) ==
    /\ pc[j][a] = "uploading"
    /\ IF r.exc
       THEN /\ AngleRaise(j, a)
            /\ UNCHANGED <<files, s3_objects>>
       ELSE /\ s3_objects' = IF r.val THEN s3_objects \cup {<<j, a>>} ELSE s3_objects
            /\ IF unlink_ok
               THEN /\ files' = files \ {final_path(j, a)}
                    /\ angle_status' = [angle_status EXCEPT ![j][a] = "completed"]
                    /\ pc' = [pc EXCEPT ![j][a] = "returned"]
                    /\ semaphore' = semaphore + 1
               ELSE /\ AngleRaise(j, a)
                    /\ UNCHANGED files
    /\ UNCHANGED <<app_vars, probe_vars, override, gpu_available, max_concurrent, batch_pc,
                   total_jobs, completed_jobs, failed_jobs, video_files,
                   job_status, error_message, job_pc, dest_existed>>

UploadReturn(j, a) ==
    /\ \E r \in UploadReturns, unlink_ok \in BOOLEAN : Uploaded(j, a, r, unlink_ok)
    /\ UNCHANGED obs_vars

(***************************************************************************)
(* The batch engine                                                        *)
(***************************************************************************)
Next ==
    \/ ProcessGames
    \/ ProcessGamesReturn
    \/ \E j \in Jobs : StartGame(j)
    \/ \E j \in Jobs : FinishGame(j)
    \/ \E j \in Jobs : \E a \in video_files[j] : AcquireAngle(j, a)
    \/ \E j \in Jobs : \E a \in video_files[j] : ExtractReturn(j, a)
    \/ \E j \in Jobs : \E a \in video_files[j] : CompressReturn(j, a)
    \/ \E j \in Jobs : \E a \in video_files[j] : UploadReturn(j, a)

Spec == Init /\ [][Next]_vars

\* a re-run: every destination key of the batch is already in the bucket
RerunJobLists == {f \in JobLists : SumCard(f, Len(f)) \in 1..2}
InitRerun == InitWith(Scenarios, RerunJobLists, TRUE)
SpecRerun == InitRerun /\ [][Next]_vars

(***************************************************************************)
(* One angle pipeline observed in detail: the same steps, with the calls   *)
(* made, the probed resolution and the two tool calls written down.        *)
(***************************************************************************)
ExtractReturnObserved(j, a) ==
    \/ /\ \E left \in BOOLEAN : Extracted(j, a, FALSE, left, NoResolution)
       /\ calls' = calls \o << <<"extract_segment", FALSE>> >>
       /\ UNCHANGED <<resolution, compress_call, upload_call>>
    \/ \E probe \in ProbeResults :
          /\ Extracted(j, a, TRUE, TRUE, probe)
          /\ calls' = calls \o << <<"extract_segment", TRUE>>,
                                   <<"get_resolution", probe.some>> >>
          /\ resolution' = probe
          /\ UNCHANGED <<compress_call, upload_call>>

CompressReturnObserved(j, a) ==
    \E c \in BOOLEAN, g \in BOOLEAN, s \in BOOLEAN, left \in BOOLEAN,
       unlink_ok \in BOOLEAN :
       LET r == compress_video(gpu_available, c, g, s) IN
       /\ Compressed(j, a, r.exc, left, unlink_ok)
       /\ calls' = calls \o (IF r.exc THEN << <<"compress_video", FALSE>> >>
                              ELSE << <<"compress_video", TRUE>>,
                                      <<"segment_unlink", unlink_ok>> >>)
       /\ compress_call' =
             [called |-> TRUE, use_gpu |-> gpu_available, gpu_check |-> c,
              gpu_ok |-> g, cpu_ok |-> s, exc |-> r.exc, ran |-> r.ran]
       /\ UNCHANGED <<resolution, upload_call>>

UploadReturnObserved(j, a) ==
    \E size \in FileSizes, o \in OutcomeSeqs, unlink_ok \in BOOLEAN :
       LET u == upload_to_s3(size, o) IN
       /\ Uploaded(j, a, [exc |-> u.result.exc, val |-> u.result.val], unlink_ok)
       /\ calls' = calls \o (IF u.result.exc THEN << <<"upload_to_s3", FALSE>> >>
                              ELSE << <<"upload_to_s3", TRUE>>,
                                      <<"final_unlink", unlink_ok>> >>)
       /\ upload_call' =
             [called |-> TRUE, artifact |-> final_path(j, a)[3],
              file_size |-> size, outcomes |-> o, strategy |-> u.strategy,
              exc |-> u.result.exc, val |-> u.result.val,
              attempts |-> u.result.attempts, sleeps |-> u.result.sleeps]
       /\ UNCHANGED <<resolution, compress_call>>

\* a batch of one job with one angle
AngleJobLists == {<<{AngleOrder[1]}>>}
InitAngle == InitWith(Scenarios, AngleJobLists, FALSE)

NextAngle ==
    \/ ProcessGames
    \/ ProcessGamesReturn
    \/ \E j \in Jobs : StartGame(j)
    \/ \E j \in Jobs : FinishGame(j)
    \/ \E j \in Jobs : \E a \in video_files[j] : AcquireAngle(j, a)
    \/ \E j \in Jobs : \E a \in video_files[j] : ExtractReturnObserved(j, a)
    \/ \E j \in Jobs : \E a \in video_files[j] : CompressReturnObserved(j, a)
    \/ \E j \in Jobs : \E a \in video_files[j] : UploadReturnObserved(j, a)

SpecAngle == InitAngle /\ [][NextAngle]_vars

(***************************************************************************)
(* ResourceManager.get_max_concurrent_ffmpeg on its own                    *)
(***************************************************************************)
InitProbe ==
    /\ cpu_reading \in CpuReadings
    /\ mem_reading \in MemReadings
    /\ gpu_reading \in GpuReadings
    /\ probe_pc = "start"
    /\ recommended = Ret(0)
    /\ override = None /\ gpu_available = FALSE
    /\ max_concurrent = 0 /\ semaphore = 0 /\ batch_pc = "none"
    /\ total_jobs = 0 /\ completed_jobs = 0 /\ failed_jobs = 0
    /\ video_files = <<>>
    /\ job_status = <<>> /\ error_message = <<>> /\ angle_status = <<>>
    /\ job_pc = <<>> /\ pc = <<>>
    /\ files = {} /\ s3_objects = {} /\ dest_existed = {}
    /\ AppIdle
    /\ calls = <<>> /\ resolution = NoResolution
    /\ compress_call = NoCompressCall /\ upload_call = NoUploadCall

\* one call of ResourceManager.get_max_concurrent_ffmpeg()
GetMaxConcurrentFfmpeg ==
    /\ probe_pc = "start"
    /\ probe_pc' = "done"
    /\ recommended' = get_max_concurrent_ffmpeg(cpu_reading, mem_reading, gpu_reading)
    /\ UNCHANGED <<app_vars, cpu_reading, mem_reading, gpu_reading, proc_vars, job_vars,
                   angle_vars, env_vars, obs_vars>>

NextProbe == GetMaxConcurrentFfmpeg

SpecProbe == InitProbe /\ [][NextProbe]_vars

(***************************************************************************)
(* The S3Uploader constructions of a process, on their own: every          *)
(* upload_to_s3 and every validate_aws_credentials constructs one, with    *)
(* the configuration stored at that time (PUT /api/config/aws changes it). *)
(***************************************************************************)
\* no ParallelProcessor exists
EngineIdle ==
    /\ cpu_reading = None /\ mem_reading = Raise /\ gpu_reading = "not_found"
    /\ probe_pc = "done" /\ recommended = Ret(0)
    /\ override = None /\ gpu_available = FALSE
    /\ max_concurrent = 0 /\ semaphore = 0 /\ batch_pc = "none"
    /\ total_jobs = 0 /\ completed_jobs = 0 /\ failed_jobs = 0
    /\ video_files = <<>>
    /\ job_status = <<>> /\ error_message = <<>> /\ angle_status = <<>>
    /\ job_pc = <<>> /\ pc = <<>>
    /\ files = {} /\ s3_objects = {} /\ dest_existed = {}
    /\ calls = <<>> /\ resolution = NoResolution
    /\ compress_call = NoCompressCall /\ upload_call = NoUploadCall

InitClient ==
    /\ EngineIdle
    /\ WebIdle
    /\ CameraIdle
    /\ EventsIdle
    /\ ToolsIdle
    /\ hash_of \in HashFunctions
    /\ _client = 0
    /\ _client_config_hash = None
    /\ constructed = <<>>
    /\ validation = NoValidation

\* uploader = S3Uploader(config) in upload_to_s3
UploadToS3Constructs ==
    /\ \E key \in ConfigKeys : Constructing(key)
    /\ UNCHANGED <<validation, web_vars, camera_vars, event_vars, tool_vars, probe_vars, proc_vars, job_vars,
                   angle_vars, env_vars, obs_vars>>

\* validate_aws_credentials(config): construct, test_connection, re-raise
ValidateAwsCredentials ==
    /\ \E key \in ConfigKeys : Constructing(key)
    /\ \E o \in HeadBucketOutcomes :
          LET r == validate_aws_credentials(o) IN
          validation' = [called |-> TRUE, outcome |-> o, exc |-> r.exc,
                         val |-> r.val, error |-> r.error]
    /\ UNCHANGED <<web_vars, camera_vars, event_vars, tool_vars, probe_vars, proc_vars, job_vars, angle_vars,
                   env_vars, obs_vars>>

NextClient ==
    \/ UploadToS3Constructs
    \/ ValidateAwsCredentials

SpecClient == InitClient /\ [][NextClient]_vars

(***************************************************************************)
(* main.py: the input-video workflow.  POST /api/input-videos/process      *)
(* starts process_input_jobs_parallel as a background task, which builds a *)
(* ParallelProcessor and runs process_games on the pending jobs.           *)
(***************************************************************************)
\* job lists created through POST /api/input-videos/jobs before the run
AppJobLists == {<<>>, <<AnglePrefix(1)>>, <<AnglePrefix(2)>>}

\* <<os.cpu_count(), virtual_memory(), nvidia-smi>> readings between which
\* the machine moves: they give the ceilings 1 and 2
AppReadings ==
    { <<Some(2), Ret(8 * MemUnitsPerGB), "not_found">>,
      <<Some(8), Ret(4 * MemUnitsPerGB), "rc0">> }

\* pending_jobs = [job for job in input_video_jobs.values() if job.status == "pending"]
PendingJobs == {j \in Jobs : job_status[j] = "pending"}

\* a handler that does not look at the flag
process_input_videos_nocheck(active, configured, pending) ==
    IF ~configured
    THEN [response |-> "AWS credentials not configured", active |-> active,
          started |-> FALSE]
    ELSE IF pending = {}
    THEN [response |-> "No pending jobs to process", active |-> active,
          started |-> FALSE]
    ELSE [response |-> "success", active |-> TRUE, started |-> TRUE]
\* a handler that sets the flag before it validates
process_input_videos_flagfirst(active, configured, pending) ==
    IF active
    THEN [response |-> "Processing already active", active |-> active,
          started |-> FALSE]
    ELSE IF ~configured
    THEN [response |-> "AWS credentials not configured", active |-> TRUE,
          started |-> FALSE]
    ELSE IF pending = {}
    THEN [response |-> "No pending jobs to process", active |-> TRUE,
          started |-> FALSE]
    ELSE [response |-> "success", active |-> TRUE, started |-> TRUE]
\* process_input_videos: the answer (the detail of the HTTPException or
\* success), the flag after the call, and whether a task was created
process_input_videos(active, configured, pending) ==
    IF active
    THEN [response |-> "Processing already active", active |-> active,
          started |-> FALSE]
    ELSE IF ~configured
    THEN [response |-> "AWS credentials not configured", active |-> active,
          started |-> FALSE]
    ELSE IF pending = {}
    THEN [response |-> "No pending jobs to process", active |-> active,
          started |-> FALSE]
    ELSE [response |-> "success", active |-> TRUE, started |-> TRUE]

\* the handler has no await: it runs in one step
ProcessInputVideos ==
    LET r == process_input_videos(input_processing_active, aws_configured,
                                  PendingJobs) IN
    /\ start_response' = r.response
    /\ input_processing_active' = r.active
    /\ active_coordinators' = active_coordinators + (IF r.started THEN 1 ELSE 0)
    /\ UNCHANGED <<client_vars, camera_vars, aws_configured, status_response,
                   event_vars, tool_vars, probe_vars,
                   proc_vars, job_vars, angle_vars, env_vars, obs_vars>>

\* process_input_jobs_parallel, first stretch: ParallelProcessor(config,
\* max_concurrent=None, progress_callback) measures the resources now
CoordinatorConstructs ==
    /\ active_coordinators > 0
    /\ batch_pc = "none"
    /\ batch_pc' = "constructed"
    /\ max_concurrent' = ResolveMaxConcurrent(None, cpu_reading, mem_reading, gpu_reading)
    /\ semaphore' = max_concurrent'
    /\ total_jobs' = 0 /\ completed_jobs' = 0 /\ failed_jobs' = 0
    /\ UNCHANGED <<app_vars, probe_vars, override, gpu_available, job_vars,
                   angle_vars, env_vars, obs_vars>>

\* process_input_jobs_parallel, finally: the flag is reset (the closing
\* broadcast follows)
CoordinatorFinally ==
    /\ active_coordinators > 0
    /\ batch_pc = "returned"
    /\ input_processing_active' = FALSE
    /\ active_coordinators' = active_coordinators - 1
    /\ UNCHANGED <<client_vars, camera_vars, aws_configured, start_response, status_response,
                   event_vars, tool_vars, probe_vars, proc_vars, job_vars, angle_vars, env_vars, obs_vars>>

\* get_input_processing_status: the fields of the answer
get_input_processing_status ==
    [processing_active |-> input_processing_active,
     total_jobs |-> Cardinality(Jobs),
     completed |-> Cardinality({j \in Jobs : job_status[j] = "completed"}),
     in_progress |-> Cardinality({j \in Jobs : job_status[j] = "processing"}),
     pending |-> Cardinality({j \in Jobs : job_status[j] = "pending"}),
     error |-> Cardinality({j \in Jobs : job_status[j] = "error"}),
     max_concurrent |-> get_max_concurrent_ffmpeg(cpu_reading, mem_reading,
                                                  gpu_reading).val]

\* GET /api/input-videos/status changes nothing; its max_concurrent is kept
GetInputProcessingStatus ==
    /\ status_response' =
          [asked |-> TRUE,
           max_concurrent |-> get_input_processing_status.max_concurrent,
           processor_built |-> batch_pc # "none"]
    /\ UNCHANGED <<client_vars, camera_vars, aws_configured, input_processing_active,
                   active_coordinators, start_response, event_vars, tool_vars, probe_vars, proc_vars,
                   job_vars, angle_vars, env_vars, obs_vars>>

\* load on the machine changes what the next measurement returns
ResourcesChange ==
    /\ \E r \in AppReadings :
          /\ r # <<cpu_reading, mem_reading, gpu_reading>>
          /\ cpu_reading' = r[1] /\ mem_reading' = r[2] /\ gpu_reading' = r[3]
    /\ UNCHANGED <<app_vars, probe_pc, recommended, proc_vars, job_vars,
                   angle_vars, env_vars, obs_vars>>

\* the jobs were created through POST /api/input-videos/jobs and no
\* ParallelProcessor was built yet
InputJobsCreated(joblists, readings, gpus) ==
    /\ \E r \in readings :
          cpu_reading = r[1] /\ mem_reading = r[2] /\ gpu_reading = r[3]
    /\ probe_pc = "done"
    /\ recommended = get_max_concurrent_ffmpeg(cpu_reading, mem_reading, gpu_reading)
    /\ override = None /\ gpu_available \in gpus
    /\ max_concurrent = 0 /\ semaphore = 0 /\ batch_pc = "none"
    /\ total_jobs = 0 /\ completed_jobs = 0 /\ failed_jobs = 0
    /\ video_files \in joblists
    /\ job_status = [j \in Jobs |-> "pending"]
    /\ error_message = [j \in Jobs |-> 0]
    /\ angle_status = [j \in Jobs |-> [a \in video_files[j] |-> "pending"]]
    /\ job_pc = [j \in Jobs |-> "none"]
    /\ pc = [j \in Jobs |-> [a \in video_files[j] |-> "pending"]]
    /\ files = {} /\ s3_objects = {} /\ dest_existed = {}
    /\ calls = <<>> /\ resolution = NoResolution
    /\ compress_call = NoCompressCall /\ upload_call = NoUploadCall

InitApp ==
    /\ InputJobsCreated(AppJobLists, AppReadings, BOOLEAN)
    /\ ClientIdle
    /\ CameraIdle
    /\ EventsIdle
    /\ ToolsIdle
    /\ aws_configured \in BOOLEAN
    /\ input_processing_active = FALSE
    /\ active_coordinators = 0
    /\ start_response = "none"
    /\ status_response = NoStatus

NextApp ==
    \/ ProcessInputVideos
    \/ CoordinatorConstructs
    \/ CoordinatorFinally
    \/ GetInputProcessingStatus
    \/ ResourcesChange
    \/ Next

SpecApp == InitApp /\ [][NextApp]_vars

(***************************************************************************)
(* main.py: the camera-file workflow.  POST /api/process/start starts      *)
(* process_all_games, which runs process_game for each pending game:       *)
(* one process_single_angle task per camera angle, gathered.  The tasks    *)
(* call the same extract_segment, compress_video and upload_to_s3 as the   *)
(* angle tasks of the ParallelProcessor; no semaphore is involved.         *)
(***************************************************************************)
\* the game is written as job 0 in file names and keys
CamSeg(a) == <<0, a, "segment">>
CamComp(a) == <<0, a, "compressed">>
CameraInFlight == {a \in CameraAngles : cam_pc[a] \in InFlightPcs}

\* start_processing: the answer, the flag after the call, and whether the
\* process_all_games task was created
start_processing(active, side, configured, camera_files, pending_games) ==
    IF active
    THEN [response |-> "Processing already active", active |-> active,
          started |-> FALSE]
    ELSE IF ~side
    THEN [response |-> "Side not configured", active |-> active, started |-> FALSE]
    ELSE IF ~configured
    THEN [response |-> "AWS credentials not configured", active |-> active,
          started |-> FALSE]
    ELSE IF camera_files < 2
    THEN [response |-> "Need at least 2 camera files", active |-> active,
          started |-> FALSE]
    ELSE IF ~pending_games
    THEN [response |-> "No pending games to process", active |-> active,
          started |-> FALSE]
    ELSE [response |-> "success", active |-> TRUE, started |-> TRUE]

StartProcessing ==
    LET r == start_processing(processing_active, camera_setup.side, aws_configured,
                              camera_setup.camera_files, game_status = "pending") IN
    /\ camera_response' = r.response
    /\ processing_active' = r.active
    /\ camera_pc' = IF r.started THEN "created" ELSE camera_pc
    /\ UNCHANGED <<client_vars, web_vars, camera_setup, game_status, cam_pc,
                   event_vars, tool_vars, probe_vars, proc_vars, job_vars, angle_vars, env_vars, obs_vars>>

\* process_all_games up to the gather of process_game: game.status =
\* "processing", one process_single_angle task per angle
ProcessAllGames ==
    /\ camera_pc = "created"
    /\ camera_pc' = "gathering"
    /\ game_status' = "processing"
    /\ cam_pc' = [a \in CameraAngles |-> "created"]
    /\ UNCHANGED <<client_vars, web_vars, camera_setup, processing_active,
                   camera_response, event_vars, tool_vars, probe_vars, proc_vars, job_vars, angle_vars,
                   env_vars, obs_vars>>

\* process_single_angle up to its first tool: extract_segment is started
CamAngleStarts(a) ==
    /\ cam_pc[a] = "created"
    /\ cam_pc' = [cam_pc EXCEPT ![a] = "extracting"]
    /\ UNCHANGED <<client_vars, web_vars, camera_setup, processing_active,
                   camera_response, game_status, camera_pc, event_vars, tool_vars, probe_vars, proc_vars,
                   job_vars, angle_vars, env_vars, obs_vars>>

\* extract_segment returns or raises; get_resolution; the 4K decision
CamExtractReturn(a) ==
    /\ cam_pc[a] = "extracting"
    /\ \/ \E left \in BOOLEAN :
             /\ files' = IF left THEN files \cup {CamSeg(a)} ELSE files
             /\ cam_pc' = [cam_pc EXCEPT ![a] = "raised"]
       \/ \E probe \in ProbeResults :
             /\ files' = files \cup {CamSeg(a)}
             /\ cam_pc' = [cam_pc EXCEPT ![a] =
                             IF ~probe.some THEN "raised"
                             ELSE IF is_4k_or_higher(probe.width, probe.height)
                             THEN "compressing" ELSE "uploading"]
    /\ UNCHANGED <<client_vars, web_vars, camera_setup, processing_active,
                   camera_response, game_status, camera_pc, event_vars, tool_vars, probe_vars, proc_vars,
                   job_vars, angle_vars, s3_objects, dest_existed, obs_vars>>

\* compress_video returns or raises; segment_path.unlink()
CamCompressReturn(a) ==
    /\ cam_pc[a] = "compressing"
    /\ \E exc \in {r.exc : r \in CompressResults}, left \in BOOLEAN,
          unlink_ok \in BOOLEAN :
          IF exc
          THEN /\ files' = IF left THEN files \cup {CamComp(a)} ELSE files
               /\ cam_pc' = [cam_pc EXCEPT ![a] = "raised"]
          ELSE IF ~unlink_ok
          THEN /\ files' = files \cup {CamComp(a)}
               /\ cam_pc' = [cam_pc EXCEPT ![a] = "raised"]
          ELSE /\ files' = (files \cup {CamComp(a)}) \ {CamSeg(a)}
               /\ cam_pc' = [cam_pc EXCEPT ![a] = "uploading"]
    /\ UNCHANGED <<client_vars, web_vars, camera_setup, processing_active,
                   camera_response, game_status, camera_pc, event_vars, tool_vars, probe_vars, proc_vars,
                   job_vars, angle_vars, s3_objects, dest_existed, obs_vars>>

\* upload_to_s3 returns or raises; final_path.unlink()
CamUploadReturn(a) ==
    /\ cam_pc[a] = "uploading"
    /\ \E r \in UploadReturns, unlink_ok \in BOOLEAN :
          IF r.exc
          THEN /\ cam_pc' = [cam_pc EXCEPT ![a] = "raised"]
               /\ UNCHANGED <<files, s3_objects>>
          ELSE /\ s3_objects' = IF r.val THEN s3_objects \cup {<<0, a>>} ELSE s3_objects
               /\ IF unlink_ok
                  THEN /\ files' = files \ {IF CamComp(a) \in files THEN CamComp(a)
                                              ELSE CamSeg(a)}
                       /\ cam_pc' = [cam_pc EXCEPT ![a] = "returned"]
                  ELSE /\ cam_pc' = [cam_pc EXCEPT ![a] = "raised"]
                       /\ UNCHANGED files
    /\ UNCHANGED <<client_vars, web_vars, camera_setup, processing_active,
                   camera_response, game_status, camera_pc, event_vars, tool_vars, probe_vars, proc_vars,
                   job_vars, angle_vars, dest_existed, obs_vars>>

\* await asyncio.gather(*tasks) in process_game returns when both tasks
\* returned and raises as soon as one task raised, the other still running;
\* game.status; finally: processing_active = False
ProcessAllGamesEnds ==
    /\ camera_pc = "gathering"
    /\ \/ \E a \in CameraAngles : cam_pc[a] = "raised"
       \/ \A a \in CameraAngles : cam_pc[a] = "returned"
    /\ game_status' = IF \E a \in CameraAngles : cam_pc[a] = "raised"
                      THEN "error" ELSE "complete"
    /\ processing_active' = FALSE
    /\ camera_pc' = "finished"
    /\ UNCHANGED <<client_vars, web_vars, camera_setup, camera_response, cam_pc,
                   event_vars, tool_vars, probe_vars, proc_vars, job_vars, angle_vars, env_vars, obs_vars>>

\* both workflows in one process: one input job of one angle, one game
CameraJobLists == {<<AnglePrefix(1)>>}
\* readings that give the ceiling 2
CameraReadings == {<<Some(8), Ret(4 * MemUnitsPerGB), "rc0">>}
CameraSetups ==
    {[side |-> TRUE, camera_files |-> 2], [side |-> FALSE, camera_files |-> 2],
     [side |-> TRUE, camera_files |-> 1]}

InitCamera ==
    /\ InputJobsCreated(CameraJobLists, CameraReadings, {TRUE})
    /\ ClientIdle
    /\ WebIdle
    /\ EventsIdle
    /\ ToolsIdle
    /\ camera_setup \in CameraSetups
    /\ processing_active = FALSE
    /\ camera_response = "none"
    /\ game_status \in {"none", "pending"}
    /\ camera_pc = "none"
    /\ cam_pc = [a \in CameraAngles |-> "none"]

NextCamera ==
    \/ StartProcessing
    \/ ProcessAllGames
    \/ \E a \in CameraAngles : CamAngleStarts(a)
    \/ \E a \in CameraAngles : CamExtractReturn(a)
    \/ \E a \in CameraAngles : CamCompressReturn(a)
    \/ \E a \in CameraAngles : CamUploadReturn(a)
    \/ ProcessAllGamesEnds
    \/ ProcessInputVideos
    \/ CoordinatorConstructs
    \/ CoordinatorFinally
    \/ Next

SpecCamera == InitCamera /\ [][NextCamera]_vars

(***************************************************************************)
(* The batch with its progress events.  Every _broadcast_progress is an    *)
(* await of the subscriber (progress_callback), so here a task's stretch   *)
(* ends where it hands a message to the subscriber, and the next stretch   *)
(* starts when the subscriber returned or raised.  A subscriber call that  *)
(* never returns leaves the task where it is.                              *)
(***************************************************************************)
\* what one call of the subscriber does
SubscriberOutcomes == {"returns", "raises", "never returns"}

\* a _broadcast_progress without its try/except
_broadcast_progress_nocatch(o) ==
    IF o = "returns" THEN "returned"
    ELSE IF o = "raises" THEN "raised"
    ELSE "blocked"
\* await self._broadcast_progress(...), as its caller sees it: the call
\* returns (an Exception of the subscriber is caught and logged), or it
\* does not return while the subscriber does not
_broadcast_progress(o) ==
    IF o = "returns" THEN "returned"
    ELSE IF o = "raises" THEN "returned"
    ELSE "blocked"

\* the positions at which an angle task / a job task awaits the subscriber
AngleBroadcastPcs ==
    {"b_angle_started", "b_extracting", "b_compressing", "b_skipping_compression",
     "b_uploading", "b_angle_completed", "b_angle_error"}
GameBroadcastPcs == {"b_started", "b_completed", "b_error"}

\* except Exception as e: angle_status = "error"; the angle_error message
\* is handed to the subscriber
EvAngleExcept(j, a) ==
    /\ angle_status' = [angle_status EXCEPT ![j][a] = "error"]
    /\ events' = events \cup {<<"angle_error", j, a>>}
    /\ pc' = [pc EXCEPT ![j][a] = "b_angle_error"]
    /\ UNCHANGED semaphore

\* async with self.semaphore; angle_status = "processing"; angle_started
EvAcquireAngle(j, a) ==
    /\ job_pc[j] = "gathering"
    /\ pc[j][a] = "pending"
    /\ semaphore > 0
    /\ semaphore' = semaphore - 1
    /\ angle_status' = [angle_status EXCEPT ![j][a] = "processing"]
    /\ events' = events \cup {<<"angle_started", j, a>>}
    /\ pc' = [pc EXCEPT ![j][a] = "b_angle_started"]
    /\ UNCHANGED <<client_vars, web_vars, camera_vars, sub_raised, tool_failed,
                   tool_vars, probe_vars, override, gpu_available, max_concurrent, batch_pc,
                   total_jobs, completed_jobs, failed_jobs, video_files,
                   job_status, error_message, job_pc, env_vars, obs_vars>>

\* the subscriber call of an angle task ends (or is found never to end) and
\* the task runs to its next await
EvAngleSubscriber(j, a) ==
    /\ pc[j][a] \in AngleBroadcastPcs
    /\ \E o \in SubscriberOutcomes :
          LET r == _broadcast_progress(o) IN
          /\ sub_raised' = (sub_raised \/ o = "raises")
          /\ IF r = "blocked"
             THEN /\ pc' = [pc EXCEPT ![j][a] = "blocked"]
                  /\ UNCHANGED <<angle_status, events, semaphore>>
             ELSE IF r = "raised" /\ pc[j][a] # "b_angle_error"
             THEN \* an exception inside the try
                  EvAngleExcept(j, a)
             ELSE IF pc[j][a] \in {"b_angle_error", "b_angle_completed"}
             THEN \* the task ends and leaves the async with
                  /\ pc' = [pc EXCEPT ![j][a] =
                              IF pc[j][a] = "b_angle_error" THEN "raised"
                              ELSE "returned"]
                  /\ semaphore' = semaphore + 1
                  /\ UNCHANGED <<angle_status, events>>
             ELSE IF pc[j][a] = "b_angle_started"
             THEN /\ events' = events \cup {<<"extracting", j, a>>}
                  /\ pc' = [pc EXCEPT ![j][a] = "b_extracting"]
                  /\ UNCHANGED <<angle_status, semaphore>>
             ELSE IF pc[j][a] = "b_skipping_compression"
             THEN /\ events' = events \cup {<<"uploading", j, a>>}
                  /\ pc' = [pc EXCEPT ![j][a] = "b_uploading"]
                  /\ UNCHANGED <<angle_status, semaphore>>
             ELSE \* the tool the message announced is started
                  /\ pc' = [pc EXCEPT ![j][a] =
                              IF pc[j][a] = "b_extracting" THEN "extracting"
                              ELSE IF pc[j][a] = "b_compressing" THEN "compressing"
                              ELSE "uploading"]
                  /\ UNCHANGED <<angle_status, events, semaphore>>
    /\ UNCHANGED <<client_vars, web_vars, camera_vars, tool_failed,
                   tool_vars, probe_vars, override, gpu_available, max_concurrent, batch_pc,
                   total_jobs, completed_jobs, failed_jobs, video_files,
                   job_status, error_message, job_pc, env_vars, obs_vars>>

\* extract_segment returns or raises; get_resolution; the 4K decision; the
\* message of the next stage
EvExtractReturn(j, a) ==
    /\ pc[j][a] = "extracting"
    /\ \/ \E left \in BOOLEAN :
             /\ files' = IF left THEN files \cup {Seg(j, a)} ELSE files
             /\ tool_failed' = tool_failed \cup {<<j, a>>}
             /\ EvAngleExcept(j, a)
       \/ \E probe \in ProbeResults :
             /\ files' = files \cup {Seg(j, a)}
             /\ IF ~probe.some
                THEN /\ tool_failed' = tool_failed \cup {<<j, a>>}
                     /\ EvAngleExcept(j, a)
                ELSE /\ events' = events \cup
                          {<<IF is_4k_or_higher(probe.width, probe.height)
                             THEN "compressing" ELSE "skipping_compression", j, a>>}
                     /\ pc' = [pc EXCEPT ![j][a] =
                                 IF is_4k_or_higher(probe.width, probe.height)
                                 THEN "b_compressing" ELSE "b_skipping_compression"]
                     /\ UNCHANGED <<angle_status, semaphore, tool_failed>>
    /\ UNCHANGED <<client_vars, web_vars, camera_vars, sub_raised,
                   tool_vars, probe_vars, override, gpu_available, max_concurrent, batch_pc,
                   total_jobs, completed_jobs, failed_jobs, video_files,
                   job_status, error_message, job_pc, s3_objects, dest_existed,
                   obs_vars>>

\* compress_video returns or raises; segment_path.unlink(); uploading
EvCompressReturn(j, a) ==
    /\ pc[j][a] = "compressing"
    /\ \E exc \in {r.exc : r \in CompressResults}, left \in BOOLEAN,
          unlink_ok \in BOOLEAN :
          IF exc \/ ~unlink_ok
          THEN /\ files' = IF exc /\ ~left THEN files ELSE files \cup {Comp(j, a)}
               /\ tool_failed' = tool_failed \cup {<<j, a>>}
               /\ EvAngleExcept(j, a)
          ELSE /\ files' = (files \cup {Comp(j, a)}) \ {Seg(j, a)}
               /\ events' = events \cup {<<"uploading", j, a>>}
               /\ pc' = [pc EXCEPT ![j][a] = "b_uploading"]
               /\ UNCHANGED <<angle_status, semaphore, tool_failed>>
    /\ UNCHANGED <<client_vars, web_vars, camera_vars, sub_raised,
                   tool_vars, probe_vars, override, gpu_available, max_concurrent, batch_pc,
                   total_jobs, completed_jobs, failed_jobs, video_files,
                   job_status, error_message, job_pc, s3_objects, dest_existed,
                   obs_vars>>

\* upload_to_s3 returns or raises; final_path.unlink(); angle_status =
\* "completed"; angle_completed
EvUploadReturn(j, a) ==
    /\ pc[j][a] = "uploading"
    /\ \E r \in UploadReturns, unlink_ok \in BOOLEAN :
          IF r.exc \/ ~unlink_ok
          THEN /\ s3_objects' = IF ~r.exc /\ r.val THEN s3_objects \cup {<<j, a>>}
                                ELSE s3_objects
               /\ tool_failed' = tool_failed \cup {<<j, a>>}
               /\ EvAngleExcept(j, a)
               /\ UNCHANGED files
          ELSE /\ s3_objects' = IF r.val THEN s3_objects \cup {<<j, a>>} ELSE s3_objects
               /\ files' = files \ {final_path(j, a)}
               /\ angle_status' = [angle_status EXCEPT ![j][a] = "completed"]
               /\ events' = events \cup {<<"angle_completed", j, a>>}
               /\ pc' = [pc EXCEPT ![j][a] = "b_angle_completed"]
               /\ UNCHANGED <<semaphore, tool_failed>>
    /\ UNCHANGED <<client_vars, web_vars, camera_vars, sub_raised,
                   tool_vars, probe_vars, override, gpu_available, max_concurrent, batch_pc,
                   total_jobs, completed_jobs, failed_jobs, video_files,
                   job_status, error_message, job_pc, dest_existed, obs_vars>>

\* _process_game: job.status = "processing"; started
EvStartGame(j) ==
    /\ batch_pc = "running"
    /\ job_pc[j] = "created"
    /\ job_status' = [job_status EXCEPT ![j] = "processing"]
    /\ events' = events \cup {<<"started", j, "">>}
    /\ job_pc' = [job_pc EXCEPT ![j] = "b_started"]
    /\ UNCHANGED <<client_vars, web_vars, camera_vars, sub_raised, tool_failed,
                   tool_vars, probe_vars, proc_vars, video_files, error_message,
                   angle_status, angle_vars, env_vars, obs_vars>>

\* the subscriber call of a job task ends: after started the angle tasks
\* are gathered, after completed or error the job task ends.  An exception
\* that reached the try of _process_game would take its except: status
\* error, failed_jobs += 1, error message (written -1: str(e)), error
EvGameSubscriber(j) ==
    /\ job_pc[j] \in GameBroadcastPcs
    /\ \E o \in SubscriberOutcomes :
          LET r == _broadcast_progress(o) IN
          /\ sub_raised' = (sub_raised \/ o = "raises")
          /\ IF r = "blocked"
             THEN /\ job_pc' = [job_pc EXCEPT ![j] = "blocked"]
                  /\ UNCHANGED <<job_status, error_message, failed_jobs, events>>
             ELSE IF r = "raised" /\ job_pc[j] # "b_error"
             THEN /\ job_status' = [job_status EXCEPT ![j] = "error"]
                  /\ error_message' = [error_message EXCEPT ![j] = -1]
                  /\ failed_jobs' = failed_jobs + 1
                  /\ events' = events \cup {<<"error", j, "">>}
                  /\ job_pc' = [job_pc EXCEPT ![j] = "b_error"]
             ELSE /\ job_pc' = [job_pc EXCEPT ![j] =
                                  IF job_pc[j] = "b_started" THEN "gathering"
                                  ELSE "done"]
                  /\ UNCHANGED <<job_status, error_message, failed_jobs, events>>
    /\ UNCHANGED <<client_vars, web_vars, camera_vars, tool_failed,
                   tool_vars, probe_vars, override, gpu_available, max_concurrent, semaphore,
                   batch_pc, total_jobs, completed_jobs, video_files,
                   angle_status, angle_vars, env_vars, obs_vars>>

\* gather(*angle_tasks, return_exceptions=True) returns; status and
\* counters; completed
EvFinishGame(j) ==
    /\ job_pc[j] = "gathering"
    /\ \A a \in video_files[j] : pc[j][a] \in TerminalPcs
    /\ IF Failures(j) # {}
       THEN /\ job_status' = [job_status EXCEPT ![j] = "error"]
            /\ error_message' = [error_message EXCEPT ![j] = Cardinality(Failures(j))]
            /\ failed_jobs' = failed_jobs + 1
            /\ UNCHANGED completed_jobs
       ELSE /\ job_status' = [job_status EXCEPT ![j] = "completed"]
            /\ completed_jobs' = completed_jobs + 1
            /\ UNCHANGED <<failed_jobs, error_message>>
    /\ events' = events \cup {<<"completed", j, "">>}
    /\ job_pc' = [job_pc EXCEPT ![j] = "b_completed"]
    /\ UNCHANGED <<client_vars, web_vars, camera_vars, sub_raised, tool_failed,
                   tool_vars, probe_vars, override, gpu_available, max_concurrent, semaphore,
                   batch_pc, total_jobs, video_files, angle_status,
                   angle_vars, env_vars, obs_vars>>

\* process_input_jobs_parallel, finally: the flag is reset and the closing
\* message is broadcast
EvCoordinatorFinally ==
    /\ active_coordinators > 0
    /\ batch_pc = "returned"
    /\ input_processing_active' = FALSE
    /\ active_coordinators' = active_coordinators - 1
    /\ events' = events \cup {<<"Input video processing completed", 0, "">>}
    /\ UNCHANGED <<client_vars, camera_vars, aws_configured, start_response,
                   status_response, sub_raised, tool_failed, tool_vars, probe_vars, proc_vars,
                   job_vars, angle_vars, env_vars, obs_vars>>

\* batches of two or three angle tasks in one or two jobs
EventJobLists ==
    {<<AnglePrefix(2)>>, <<AnglePrefix(1), AnglePrefix(1)>>,
     <<AnglePrefix(2), AnglePrefix(1)>>}

\* POST /api/input-videos/process was accepted and its task created
InitEvents ==
    /\ InputJobsCreated(EventJobLists, AppReadings, {TRUE})
    /\ ClientIdle
    /\ CameraIdle
    /\ EventsIdle
    /\ ToolsIdle
    /\ aws_configured = TRUE
    /\ input_processing_active = TRUE
    /\ active_coordinators = 1
    /\ start_response = "success"
    /\ status_response = NoStatus

NextEvents ==
    \/ CoordinatorConstructs
    \/ ProcessGames
    \/ \E j \in Jobs : EvStartGame(j)
    \/ \E j \in Jobs : EvGameSubscriber(j)
    \/ \E j \in Jobs : \E a \in video_files[j] : EvAcquireAngle(j, a)
    \/ \E j \in Jobs : \E a \in video_files[j] : EvAngleSubscriber(j, a)
    \/ \E j \in Jobs : \E a \in video_files[j] : EvExtractReturn(j, a)
    \/ \E j \in Jobs : \E a \in video_files[j] : EvCompressReturn(j, a)
    \/ \E j \in Jobs : \E a \in video_files[j] : EvUploadReturn(j, a)
    \/ \E j \in Jobs : EvFinishGame(j)
    \/ ProcessGamesReturn
    \/ EvCoordinatorFinally

SpecEvents == InitEvents /\ [][NextEvents]_vars


(***************************************************************************)
(* Properties                                                              *)
(***************************************************************************)
Terminal(t) == pc[t[1]][t[2]] \in TerminalPcs
JobTerminal(j) == job_status[j] \in {"completed", "error"}

\* C1: at every instant the number of angle pipelines between slot
\* acquisition and slot release, counted over all jobs of the batch, is at
\* most the ceiling (one slot pool for the whole batch).
C1_InFlightWithinCeiling == Cardinality(InFlight) <= max_concurrent

\* the ceiling is reached by pipelines of two different jobs while a third
\* pipeline of a started job waits for a slot
C1_Witness ==
    /\ Cardinality(InFlight) = max_concurrent
    /\ \E t \in InFlight, u \in InFlight : t[1] # u[1]
    /\ \E t \in Tasks : pc[t[1]][t[2]] = "pending" /\ job_pc[t[1]] = "gathering"

\* C2: every pipeline that acquired a slot released it exactly once when it
\* ended, on every exit path: the free slots plus the pipelines in flight
\* always make up the ceiling, so with no pipeline running every slot is free.
C2_SlotsConserved ==
    /\ semaphore + Cardinality(InFlight) = max_concurrent
    /\ InFlight = {} => semaphore = max_concurrent

\* a 4-angle job of which one angle ended well, one failed in extraction
\* (nothing on disk), one in compression (segment and partial output left)
\* and one in cleanup (object uploaded, file still there); no slot is held
C2_Witness ==
    /\ InFlight = {}
    /\ semaphore = max_concurrent
    /\ \E j \in Jobs :
          /\ video_files[j] = Angles
          /\ \A a \in Angles : pc[j][a] \in TerminalPcs
          /\ pc[j]["farright"] = "returned"
          /\ pc[j]["farleft"] = "raised"
          /\ Seg(j, "farleft") \notin files /\ Comp(j, "farleft") \notin files
          /\ pc[j]["nearleft"] = "raised"
          /\ Seg(j, "nearleft") \in files /\ Comp(j, "nearleft") \in files
          /\ pc[j]["nearright"] = "raised"
          /\ <<j, "nearright">> \in s3_objects

\* C3: process_games eventually returns with every job terminal: before it
\* has returned some step is always possible, and once it has returned every
\* job is completed or error.
C3_BatchReturns ==
    /\ batch_pc = "returned" \/ ENABLED Next
    /\ batch_pc = "returned" => \A j \in Jobs : JobTerminal(j)

\* C4: a failed angle halts nothing else: a job ends only after all its
\* angles ended, the batch returns only after every angle of every job
\* ended, after a failure the batch can always go on, and every ended angle
\* of an ended job shows its own outcome (error if it raised, completed
\* otherwise) with the job in error exactly when one of them raised.
C4_FailureIsolated ==
    /\ \A j \in Jobs : JobTerminal(j) => \A a \in video_files[j] : Terminal(<<j, a>>)
    /\ batch_pc = "returned" => \A t \in Tasks : Terminal(t)
    /\ (\E t \in Tasks : pc[t[1]][t[2]] = "raised") =>
          batch_pc = "returned" \/ ENABLED Next
    /\ \A j \in Jobs : job_pc[j] = "done" =>
          /\ job_status[j] = (IF Failures(j) # {} THEN "error" ELSE "completed")
          /\ \A a \in video_files[j] :
                angle_status[j][a] =
                    (IF pc[j][a] = "raised" THEN "error" ELSE "completed")

\* a 4-angle job in which exactly one angle failed in extraction: the job is
\* in error, that angle in error, the other three completed
C4_Witness ==
    \E j \in Jobs :
       /\ video_files[j] = Angles
       /\ job_status[j] = "error"
       /\ \E a \in Angles :
             /\ angle_status[j][a] = "error"
             /\ Seg(j, a) \notin files /\ Comp(j, a) \notin files
             /\ <<j, a>> \notin s3_objects
             /\ \A b \in Angles \ {a} : angle_status[j][b] = "completed"

\* C5: a job in a terminal status has all its angles terminal, and is in
\* error if and only if at least one of its angles ended in error.
C5_JobStatusFromAngles ==
    \A j \in Jobs : JobTerminal(j) =>
       /\ \A a \in video_files[j] : angle_status[j][a] \in {"completed", "error"}
       /\ job_status[j] = "error" <=>
             \E a \in video_files[j] : angle_status[j][a] = "error"

\* one job of the batch completed, another ended in error although one of
\* its angles completed
C5_Witness ==
    \E j \in Jobs, k \in Jobs :
       /\ job_status[j] = "completed"
       /\ job_status[k] = "error"
       /\ \E a \in video_files[k] : angle_status[k][a] = "completed"

\* C6: for every CPU count, available memory and accelerator outcome,
\* zero and failed readings included, the computed ceiling is in 1..4.
C6_CeilingInRange ==
    probe_pc = "done" => ~recommended.exc /\ recommended.val \in 1..4

\* no memory available at all: the candidate 0 is raised to 1
C6_Witness ==
    /\ probe_pc = "done"
    /\ mem_reading = Ret(0)
    /\ cpu_reading = Some(0)
    /\ recommended = Ret(1)

\* C7: the capacity of the slot pool of a batch is in 1..4, computed or
\* supplied as an override.
C7_CapacityInRange == max_concurrent \in 1..4

\* The ceiling as the specification states it; the cpu bound is the integer
\* half of the core count (the ceiling is an integer).
SpecClamp(x, lo, hi) == IF x < lo THEN lo ELSE IF x > hi THEN hi ELSE x
SpecCeiling(cpuCount, memUnits, accelerator) ==
    LET memBound == memUnits \div (2 * MemUnitsPerGB)
        cpuBound == IF cpuCount \div 2 < 1 THEN 1 ELSE cpuCount \div 2
        candidate == IF accelerator
                     THEN (IF memBound < 2 THEN memBound ELSE 2)
                     ELSE (IF memBound < cpuBound THEN memBound ELSE cpuBound)
    IN  SpecClamp(candidate, 1, 4)

\* C8: the computed ceiling is clamp(candidate, 1, 4) with
\* memBound = floor(availableMemGB / 2), cpuBound = max(1, cpuCount / 2),
\* candidate = min(memBound, 2) with an accelerator and
\* min(memBound, cpuBound) without, for the CPU count, memory and
\* accelerator presence the three queries gave.
C8_CeilingFormula ==
    probe_pc = "done" =>
       recommended = Ret(SpecCeiling(get_cpu_count(cpu_reading).val,
                                     get_available_memory_gb(mem_reading).val,
                                     check_gpu_available(gpu_reading).val))

\* an accelerator and plenty of memory and cores: the accelerator cap of 2
C8_Witness ==
    /\ probe_pc = "done"
    /\ gpu_reading = "rc0"
    /\ mem_reading = Ret(MaxMemUnits)
    /\ cpu_reading = Some(MaxCpu)
    /\ recommended = Ret(2)

\* C9: the computation never raises; a CPU query that yields nothing counts
\* as 2 cores, a failed memory query as 4 GB, an accelerator check that
\* errors or times out as no accelerator; with all three failing the result
\* is the ceiling of (2 cores, 4 GB, no accelerator).
C9_FallbackDefaults ==
    probe_pc = "done" =>
       LET cpuCount == IF cpu_reading = None THEN 2
                       ELSE get_cpu_count(cpu_reading).val
           memUnits == IF mem_reading = Raise THEN 4 * MemUnitsPerGB
                       ELSE mem_reading.val
           accel == IF gpu_reading \in {"timeout", "not_found"} THEN FALSE
                    ELSE gpu_reading = "rc0"
       IN  /\ ~recommended.exc
           /\ recommended.val = SpecCeiling(cpuCount, memUnits, accel)
           /\ (cpu_reading = None /\ mem_reading = Raise /\ gpu_reading = "timeout")
                 => recommended.val = SpecCeiling(2, 4 * MemUnitsPerGB, FALSE)

\* all three queries failed and the call returned 1
C9_Witness ==
    /\ probe_pc = "done"
    /\ cpu_reading = None /\ mem_reading = Raise /\ gpu_reading = "timeout"
    /\ recommended = Ret(1)

\* C10: an angle whose destination object already exists goes directly to
\* COMPLETE without any extractor, prober, transcoder or transfer
\* invocation: its pipeline is never inside one of those stages, never
\* fails, and leaves no file.
C10_ExistingDestinationSkipped ==
    \A t \in Tasks : t \in dest_existed =>
       /\ pc[t[1]][t[2]] \in {"pending", "returned"}
       /\ Seg(t[1], t[2]) \notin files /\ Comp(t[1], t[2]) \notin files

(***************************************************************************)
(* Properties of one angle pipeline                                        *)
(***************************************************************************)
\* the two orders in which _process_angle can make its calls
StageOrders ==
    { <<"extract_segment", "get_resolution", "compress_video", "segment_unlink",
        "upload_to_s3", "final_unlink">>,
      <<"extract_segment", "get_resolution", "upload_to_s3", "final_unlink">> }
IsPrefix(s, t) == Len(s) <= Len(t) /\ \A i \in 1..Len(s) : s[i] = t[i]
CallNames == [i \in DOMAIN calls |-> calls[i][1]]
Called(c) == \E i \in DOMAIN calls : calls[i][1] = c
Failed(c) == \E i \in DOMAIN calls : calls[i] = <<c, FALSE>>

\* C11: the calls of one angle pipeline are made in the order extract, probe,
\* (compress, segment removal), upload, cleanup, none skipped or repeated;
\* every call but the last returned normally, so nothing runs after a
\* failure; compress runs only with a known resolution, upload only with a
\* known resolution and, when compression ran, after it succeeded; a failed
\* call leaves the angle ended in error.
C11_StageOrder ==
    \A t \in Tasks :
       /\ \E o \in StageOrders : IsPrefix(CallNames, o)
       /\ \A i \in 1..(Len(calls) - 1) : calls[i][2]
       /\ Called("get_resolution") => <<"extract_segment", TRUE>> = calls[1]
       /\ Called("compress_video") => resolution.some
       /\ Called("upload_to_s3") =>
             /\ resolution.some
             /\ Called("compress_video") =>
                   compress_call.called /\ ~compress_call.exc
       /\ (calls # <<>> /\ ~calls[Len(calls)][2]) =>
             /\ pc[t[1]][t[2]] = "raised"
             /\ angle_status[t[1]][t[2]] = "error"

\* all six calls were made, in order, and the pipeline returned
C11_Witness ==
    /\ Len(calls) = 6
    /\ \A i \in 1..6 : calls[i][2]
    /\ \E t \in Tasks : pc[t[1]][t[2]] = "returned"

\* the status the specification gives an angle at each position of its
\* pipeline (the code writes "completed" for complete)
StageStatuses(p) ==
    CASE p = "pending" -> {"pending"}
      [] p = "extracting" -> {"extracting", "checking_resolution"}
      [] p = "compressing" -> {"compressing"}
      [] p = "uploading" -> {"skipping_compression", "uploading"}
      [] p = "returned" -> {"complete", "completed"}
      [] OTHER -> {"error"}

\* C12 as stated: every angle's status is one of pending, extracting,
\* checking_resolution, compressing, skipping_compression, uploading,
\* complete, error, and is the one of the stage the pipeline is in.
C12_StatusIsStage ==
    \A t \in Tasks : angle_status[t[1]][t[2]] \in StageStatuses(pc[t[1]][t[2]])

\* C12 as amended: every angle's status is one of pending, processing,
\* completed, error: pending until the pipeline holds a slot, processing
\* through all of extract, probe, compress and upload, completed after the
\* cleanup, error after a failure.
C12_StatusCoarse ==
    \A t \in Tasks :
       angle_status[t[1]][t[2]] =
          (CASE pc[t[1]][t[2]] = "pending" -> "pending"
             [] pc[t[1]][t[2]] \in InFlightPcs -> "processing"
             [] pc[t[1]][t[2]] = "returned" -> "completed"
             [] OTHER -> "error")

\* an angle in compression and another in upload both show "processing"
C12_Witness ==
    \E t \in Tasks, u \in Tasks :
       /\ pc[t[1]][t[2]] = "compressing" /\ angle_status[t[1]][t[2]] = "processing"
       /\ pc[u[1]][u[2]] = "uploading" /\ angle_status[u[1]][u[2]] = "processing"

\* C13: once the resolution is probed, the pipeline is in or past the
\* compress branch if and only if width >= 3840 or height >= 2160; otherwise
\* the transcoder is never called, no compressed file exists and the
\* artifact uploaded is the extracted segment.
C13_CompressIff4K ==
    \A t \in Tasks : resolution.some =>
       IF resolution.width >= 3840 \/ resolution.height >= 2160
       THEN /\ pc[t[1]][t[2]] = "compressing" \/ Called("compress_video")
            /\ upload_call.called => upload_call.artifact = "compressed"
       ELSE /\ pc[t[1]][t[2]] # "compressing"
            /\ ~Called("compress_video") /\ ~compress_call.called
            /\ Comp(t[1], t[2]) \notin files
            /\ upload_call.called => upload_call.artifact = "segment"

\* a segment probed as 3839 x 2160 was compressed and the compressed file
\* uploaded
C13_Witness ==
    /\ resolution = Resolution(3839, 2160)
    /\ Called("compress_video")
    /\ upload_call.called /\ upload_call.artifact = "compressed"

C15_NoTransientLeft ==
    \A t \in Tasks : Terminal(t) =>
       Seg(t[1], t[2]) \notin files /\ Comp(t[1], t[2]) \notin files

\* C16: when the deletion of the final artifact fails after a successful
\* upload, the angle still ends completed and its job is not counted as
\* failed.
C16_CleanupFailureNonFatal ==
    \A t \in Tasks : Failed("final_unlink") =>
       /\ angle_status[t[1]][t[2]] = "completed"
       /\ job_pc[t[1]] = "done" =>
             job_status[t[1]] = "completed" /\ failed_jobs = 0

\* C17: an upload makes between 1 and MAX_RETRIES attempts; every attempt
\* before the last one failed; when all MAX_RETRIES attempts failed the
\* upload raises and the angle ends in error; a successful attempt is the
\* last one and the upload then returns True.
C17_AtMostMaxRetries ==
    upload_call.called =>
       LET u == upload_call IN
       /\ u.attempts \in 1..MAX_RETRIES
       /\ \A i \in 1..(u.attempts - 1) : u.outcomes[i] # "ok"
       /\ u.outcomes[u.attempts] = "ok" <=> ~u.exc
       /\ ~u.exc => u.val
       /\ (\A i \in 1..MAX_RETRIES : i <= u.attempts /\ u.outcomes[i] # "ok") =>
             /\ u.exc
             /\ \A t \in Tasks : /\ pc[t[1]][t[2]] = "raised"
                                 /\ angle_status[t[1]][t[2]] = "error"

\* three attempts failed one after the other: the upload raised after the
\* third and the angle ended in error
C17_Witness ==
    /\ upload_call.called
    /\ upload_call.attempts = MAX_RETRIES
    /\ \A i \in 1..MAX_RETRIES : upload_call.outcomes[i] \in ClientError
    /\ upload_call.exc
    /\ \E t \in Tasks : angle_status[t[1]][t[2]] = "error"

\* the failures the specification calls transient, and those it calls not
\* retryable
Transient == {"ClientError/transient", "Exception/transient"}
NonRetryable == {"ClientError/denied", "Exception/denied"}

\* C18: the wait before attempt i >= 1 is 2^(i-1) seconds, with no wait
\* before attempt 0 and none after the last attempt, in the single-shot and
\* in the multi-part strategy alike; a transfer that fails twice with a
\* transient error and then succeeds ends in success after exactly 3
\* attempts and waits of 1 and 2.
C18_BackoffSchedule ==
    upload_call.called =>
       LET u == upload_call IN
       /\ Len(u.sleeps) = u.attempts - 1
       /\ \A i \in 1..Len(u.sleeps) : u.sleeps[i] = 2 ^ (i - 1)
       /\ (u.outcomes[1] \in Transient /\ u.outcomes[2] \in Transient
             /\ u.outcomes[3] = "ok") =>
             ~u.exc /\ u.val /\ u.attempts = 3 /\ u.sleeps = <<1, 2>>

\* C19: an attempt that fails with a non-retryable failure is the last one,
\* the upload raising with no attempt and no wait after it (so a first such
\* failure means exactly one attempt and no wait); an attempt that fails
\* with a transient failure is followed by another unless it was attempt
\* MAX_RETRIES.
C19_OnlyTransientRetried ==
    upload_call.called =>
       LET u == upload_call IN
       \A k \in 1..u.attempts :
          /\ u.outcomes[k] \in NonRetryable =>
                u.exc /\ u.attempts = k /\ Len(u.sleeps) = k - 1
          /\ (u.outcomes[k] \in Transient /\ k < MAX_RETRIES) => u.attempts > k

\* C20 as stated: the multi-part transfer is selected if and only if the
\* artifact has at least 100 * 1024 * 1024 bytes.
C20_MultipartFrom100MB ==
    upload_call.called =>
       (upload_call.strategy = "multipart" <=>
           upload_call.file_size >= 100 * 1024 * 1024)

\* C20 as amended: the multi-part transfer is selected if and only if the
\* artifact has more than 100 * 1024 * 1024 bytes; an artifact of exactly
\* 100 MB, like every smaller one, uses the single-shot transfer.
C20_MultipartAbove100MB ==
    upload_call.called =>
       /\ upload_call.strategy \in {"multipart", "simple"}
       /\ upload_call.strategy = "multipart" <=>
             upload_call.file_size > 100 * 1024 * 1024

\* an artifact of exactly 100 MB went up single-shot
C20_Witness ==
    /\ upload_call.called
    /\ upload_call.file_size = 100 * 1024 * 1024
    /\ upload_call.strategy = "simple"
    /\ upload_call.val


(***************************************************************************)
(* S3Uploader client cache                                                 *)
(***************************************************************************)
\* C21 (as stated): a construction whose (access key, secret key, region)
\* equals that of any earlier construction creates no new client.
C21_ReuseAfterAnyEarlier ==
    \A i \in DOMAIN constructed : \A k \in 1..(i - 1) :
        constructed[i].key = constructed[k].key => ~constructed[i].created

\* C21 (amended): a construction whose (access key, secret key, region)
\* equals that of the construction just before it creates no new client
\* and is given the client the one before it was given.
C21_ReuseAfterLatest ==
    \A i \in DOMAIN constructed :
        (i > 1 /\ constructed[i].key = constructed[i - 1].key)
            => /\ ~constructed[i].created
               /\ constructed[i].s3_client = constructed[i - 1].s3_client

\* two different configurations, then the second one again: the third
\* construction reuses the client the second one created
C21_Witness ==
    /\ Len(constructed) = 3
    /\ constructed[1].key # constructed[2].key
    /\ constructed[2].key = constructed[3].key
    /\ constructed[2].created
    /\ ~constructed[3].created
    /\ constructed[3].s3_client = 2

(***************************************************************************)
(* test_connection                                                         *)
(***************************************************************************)
\* C22: test_connection returns true when the bucket is reachable, fails
\* with the credentials/permission error on 403, with the missing-bucket
\* error on 404, and with the generic connection error on any other error.
C22_FailureKinds ==
    validation.called =>
        LET o == validation.outcome IN
        IF o.raised = "none" THEN ~validation.exc /\ validation.val
        ELSE /\ validation.exc
             /\ validation.error =
                   (IF o.raised = "ClientError" /\ o.code = "403"
                    THEN "ValueError: AWS credentials are invalid or lack permissions"
                    ELSE IF o.raised = "ClientError" /\ o.code = "404"
                    THEN "ValueError: S3 bucket does not exist"
                    ELSE "ValueError: AWS connection failed")

(***************************************************************************)
(* Batch counts                                                            *)
(***************************************************************************)
JobsWithStatus(st) == {j \in Jobs : job_status[j] = st}

\* C28: at every instant completed + failed <= total, completed is the
\* number of jobs whose status is completed and failed the number whose
\* status is error (a job adds 1 to exactly one of them in the step that
\* makes it terminal), and once process_games returned completed + failed
\* = total.
C28_CountsFollowStatuses ==
    /\ completed_jobs = Cardinality(JobsWithStatus("completed"))
    /\ failed_jobs = Cardinality(JobsWithStatus("error"))
    /\ batch_pc # "constructed" => completed_jobs + failed_jobs <= total_jobs
    /\ batch_pc = "returned" => completed_jobs + failed_jobs = total_jobs

\* a returned batch of two jobs, one completed and one failed with two
\* failed angles
C28_Witness ==
    /\ batch_pc = "returned"
    /\ total_jobs = 2
    /\ completed_jobs = 1 /\ failed_jobs = 1
    /\ \E j \in Jobs : job_status[j] = "error" /\ error_message[j] = 2

(***************************************************************************)
(* The ceiling over both workflows                                         *)
(***************************************************************************)
\* C30: at every instant the number of heavy stages (extract, compress,
\* upload) executing over the input-video batch and the camera-file
\* workflow together is at most the ceiling.
C30_CeilingSystemWide ==
    Cardinality(InFlight) + Cardinality(CameraInFlight)
        <= get_max_concurrent_ffmpeg(cpu_reading, mem_reading, gpu_reading).val

(***************************************************************************)
(* The input-video workflow                                                *)
(***************************************************************************)
\* C25: at most one batch of the input-video workflow is active at a time:
\* the flag is set exactly while one coordinator task exists, a
\* ParallelProcessor works only under the flag, and no start request ever
\* adds a second coordinator.
C25_SingleActiveBatch ==
    /\ active_coordinators <= 1
    /\ input_processing_active <=> (active_coordinators = 1)
    /\ batch_pc \in {"constructed", "running"} => input_processing_active

\* a start request was rejected while the batch was running
C25_Witness ==
    /\ start_response = "Processing already active"
    /\ input_processing_active
    /\ active_coordinators = 1
    /\ batch_pc = "running"
    /\ \E j \in Jobs : job_status[j] = "pending"

PreflightFailures ==
    {"AWS credentials not configured", "No pending jobs to process"}

\* C26: a start request that fails pre-flight validation (missing
\* credentials, no pending job) leaves the flag false, creates no
\* coordinator, changes no job or angle status and no file or object.
C26_PreflightFailureStartsNothing ==
    [][(start_response' # start_response /\ start_response' \in PreflightFailures)
          => /\ ~input_processing_active /\ ~input_processing_active'
             /\ active_coordinators' = active_coordinators
             /\ UNCHANGED <<proc_vars, job_vars, angle_vars, env_vars>>]_vars

\* a request was refused for missing credentials while jobs were pending
C26_Witness ==
    /\ start_response = "AWS credentials not configured"
    /\ ~aws_configured
    /\ PendingJobs # {}
    /\ ~input_processing_active
    /\ batch_pc = "none"

\* C29: the ceiling a status query reports once the batch's
\* ParallelProcessor exists is the capacity of that processor's semaphore.
C29_ReportedCeilingIsUsed ==
    (status_response.asked /\ status_response.processor_built)
        => status_response.max_concurrent = max_concurrent

(***************************************************************************)
(* Progress events                                                         *)
(***************************************************************************)
Blocked ==
    \/ \E j \in Jobs : job_pc[j] = "blocked"
    \/ \E t \in Tasks : pc[t[1]][t[2]] = "blocked"

\* C23: whatever events the subscriber raises at, every status and count
\* is what the outcomes of the pipeline's own calls make it: an angle is in
\* error exactly when one of its own calls failed and completed when it
\* returned, a job is in error only with a failed angle and completed only
\* with all its angles returned, the counts follow the job statuses, and
\* unless a subscriber call never returns the batch always has a next step
\* until its coordinator has finished.
C23_SubscriberRaiseHarmless ==
    /\ \A t \in Tasks :
          /\ angle_status[t[1]][t[2]] = "error" <=> t \in tool_failed
          /\ pc[t[1]][t[2]] = "returned" => angle_status[t[1]][t[2]] = "completed"
          /\ pc[t[1]][t[2]] = "raised" => t \in tool_failed
    /\ \A j \in Jobs :
          /\ job_status[j] = "error" => \E a \in video_files[j] : <<j, a>> \in tool_failed
          /\ job_status[j] = "completed" =>
                \A a \in video_files[j] : pc[j][a] = "returned"
          /\ job_pc[j] = "done" => job_status[j] \in {"completed", "error"}
    /\ completed_jobs = Cardinality(JobsWithStatus("completed"))
    /\ failed_jobs = Cardinality(JobsWithStatus("error"))
    /\ batch_pc = "returned" => completed_jobs + failed_jobs = total_jobs
    /\ ~Blocked => (~input_processing_active \/ ENABLED NextEvents)

\* the subscriber raised during a batch that ended with a completed job
C23_Witness ==
    /\ sub_raised
    /\ ~Blocked
    /\ ~input_processing_active
    /\ completed_jobs >= 1
    /\ completed_jobs + failed_jobs = total_jobs

\* C24: a subscriber that never returns blocks nothing: until the
\* coordinator has finished, the batch always has a next step.
C24_SubscriberNeverBlocks ==
    ~input_processing_active \/ ENABLED NextEvents

\* the messages of the batch as a whole that are not its closing message
BatchStartEvents ==
    {e \in events : e[2] = 0 /\ e[1] # "Input video processing completed"}
JobTerminalEvent(j) ==
    <<"completed", j, "">> \in events \/ <<"error", j, "">> \in events
AngleTerminalEvent(j, a) ==
    <<"angle_completed", j, a>> \in events \/ <<"angle_error", j, a>> \in events

\* events are only added, so "e was emitted only after d" is the invariant
\* "e in events implies d in events"
BatchStartFirst ==
    \A j \in Jobs : <<"started", j, "">> \in events => BatchStartEvents # {}
OrderWithinBatch ==
    /\ \A e \in events : e[3] # "" => <<"started", e[2], "">> \in events
    /\ \A j \in Jobs : JobTerminalEvent(j) =>
          \A a \in video_files[j] : AngleTerminalEvent(j, a)
    /\ <<"Input video processing completed", 0, "">> \in events =>
          \A j \in Jobs : JobTerminalEvent(j)

\* C27: a batch-start event precedes every job-start event; a job's start
\* event precedes every event of its angles and its terminal event follows
\* the terminal event of each of its angles; the batch-terminal event
\* follows every job-terminal event.
C27_LifecycleOrder == BatchStartFirst /\ OrderWithinBatch

(***************************************************************************)
(* upload_manager.py: BasketballUploader.  One uploader works on one       *)
(* directory; the file system and the bucket answer as the environment     *)
(* variables say.                                                          *)
(***************************************************************************)
MaxCleanupCalls == 2

supported_formats == {".mp4", ".m4a", ".mov"}

\* Path.suffix of the file names of the model
suffix(f) ==
    CASE f = "game1.mp4" -> ".mp4"
      [] f = "game2.MP4" -> ".MP4"
      [] f = "game3.Mp4" -> ".Mp4"
      [] OTHER -> ".txt"

\* str.lower() on the extensions that occur
lower(s) ==
    CASE s \in {".mp4", ".MP4", ".Mp4"} -> ".mp4"
      [] s \in {".m4a", ".M4A"} -> ".m4a"
      [] s \in {".mov", ".MOV"} -> ".mov"
      [] OTHER -> ".txt"

\* str.upper() on the extensions that occur
upper(s) ==
    CASE s \in {".mp4", ".MP4", ".Mp4"} -> ".MP4"
      [] s \in {".m4a", ".M4A"} -> ".M4A"
      [] s \in {".mov", ".MOV"} -> ".MOV"
      [] OTHER -> ".TXT"

\* validate_video_file: the file exists, its extension is supported
\* whatever its case, and it is not larger than max_file_size
validate_video_file(path, lf, big) ==
    IF path \notin lf THEN FALSE
    ELSE IF lower(suffix(path)) \notin supported_formats THEN FALSE
    ELSE IF path \in big THEN FALSE
    ELSE TRUE

\* upload_with_progress: every exception of the transfer becomes False
upload_with_progress(path, failing) == path \notin failing

\* cleanup_local_file without its try/except
cleanup_local_file_nocatch(tm, path, lf, undel) ==
    IF tm
    THEN [val |-> TRUE, exc |-> FALSE, unlink_raised |-> FALSE, local_files |-> lf]
    ELSE IF path \notin lf \/ path \in undel
         THEN [val |-> FALSE, exc |-> TRUE, unlink_raised |-> TRUE, local_files |-> lf]
         ELSE [val |-> TRUE, exc |-> FALSE, unlink_raised |-> FALSE,
               local_files |-> lf \ {path}]

\* cleanup_local_file: nothing is done in test mode; otherwise unlink, and
\* an exception of unlink (missing file, no permission) becomes False
cleanup_local_file(tm, path, lf, undel) ==
    IF tm
    THEN [val |-> TRUE, exc |-> FALSE, unlink_raised |-> FALSE, local_files |-> lf]
    ELSE IF path \notin lf \/ path \in undel
         THEN [val |-> FALSE, exc |-> FALSE, unlink_raised |-> TRUE, local_files |-> lf]
         ELSE [val |-> TRUE, exc |-> FALSE, unlink_raised |-> FALSE,
               local_files |-> lf \ {path}]

\* upload_video: validate, ensure the bucket, transfer, clean up; a failed
\* clean-up is only logged
upload_video(tm, path, lf, big, bok, failing, undel) ==
    IF ~validate_video_file(path, lf, big) THEN [val |-> FALSE, local_files |-> lf]
    ELSE IF ~bok THEN [val |-> FALSE, local_files |-> lf]
    ELSE IF ~upload_with_progress(path, failing) THEN [val |-> FALSE, local_files |-> lf]
    ELSE [val |-> TRUE,
          local_files |-> cleanup_local_file(tm, path, lf, undel).local_files]

\* directory.glob(f"*{ext}"): matching is case-sensitive
glob(lf, ext) == {f \in lf : suffix(f) = ext}

\* the enumerations of a finite set, each element once
Orderings(S) ==
    {s \in [1..Cardinality(S) -> S] :
        \A i, j \in 1..Cardinality(S) : i # j => s[i] # s[j]}

RECURSIVE GlobAll(_, _)
\* the video_files list: for each extension in turn, the matches of the
\* extension and then those of the upper-cased extension
GlobAll(lf, exts) ==
    IF exts = <<>> THEN <<>>
    ELSE (CHOOSE s \in Orderings(glob(lf, Head(exts))) : TRUE)
         \o (CHOOSE s \in Orderings(glob(lf, upper(Head(exts)))) : TRUE)
         \o GlobAll(lf, Tail(exts))

\* scan_and_upload_directory up to its loop; a set is iterated in any order
ScanAndUploadDirectory ==
    /\ up_pc = "idle"
    /\ scanned' = local_files
    /\ \E exts \in Orderings(supported_formats) :
         LET found == IF dir_exists THEN GlobAll(local_files, exts) ELSE <<>> IN
         IF found = <<>>
         THEN /\ up_pc' = "returned"
              /\ scan_result' = Some(<<>>)
              /\ UNCHANGED scan_video_files
         ELSE /\ up_pc' = "uploading"
              /\ scan_video_files' = found
              /\ UNCHANGED scan_result
    /\ UNCHANGED <<test_mode, dir_exists, local_files, oversized, bucket_ok,
                   s3_failing, undeletable, successful_uploads, failed_uploads,
                   upload_attempts, cleanup_response, cleanup_calls>>
    /\ UNCHANGED <<client_vars, web_vars, camera_vars, event_vars, registry_vars,
                   webui_vars, download_vars,
                   probe_vars, proc_vars, job_vars, angle_vars, env_vars, obs_vars>>

\* one iteration of the loop: upload_video on the next file of the list
ScanUploadsNext ==
    /\ up_pc = "uploading"
    /\ scan_video_files # <<>>
    /\ LET video_file == Head(scan_video_files)
           r == upload_video(test_mode, video_file, local_files, oversized,
                             bucket_ok, s3_failing, undeletable) IN
       /\ upload_attempts' =
              [upload_attempts EXCEPT ![video_file] = upload_attempts[video_file] + 1]
       /\ local_files' = r.local_files
       /\ IF r.val
          THEN /\ successful_uploads' = Append(successful_uploads, video_file)
               /\ UNCHANGED failed_uploads
          ELSE /\ failed_uploads' = Append(failed_uploads, video_file)
               /\ UNCHANGED successful_uploads
    /\ scan_video_files' = Tail(scan_video_files)
    /\ UNCHANGED <<test_mode, dir_exists, oversized, bucket_ok, s3_failing,
                   undeletable, up_pc, scan_result, cleanup_response,
                   cleanup_calls, scanned>>
    /\ UNCHANGED <<client_vars, web_vars, camera_vars, event_vars, registry_vars,
                   webui_vars, download_vars,
                   probe_vars, proc_vars, job_vars, angle_vars, env_vars, obs_vars>>

\* the loop is over: return successful_uploads
ScanReturns ==
    /\ up_pc = "uploading"
    /\ scan_video_files = <<>>
    /\ up_pc' = "returned"
    /\ scan_result' = Some(successful_uploads)
    /\ UNCHANGED <<test_mode, dir_exists, local_files, oversized, bucket_ok,
                   s3_failing, undeletable, scan_video_files, successful_uploads,
                   failed_uploads, upload_attempts, cleanup_response,
                   cleanup_calls, scanned>>
    /\ UNCHANGED <<client_vars, web_vars, camera_vars, event_vars, registry_vars,
                   webui_vars, download_vars,
                   probe_vars, proc_vars, job_vars, angle_vars, env_vars, obs_vars>>

\* uploader.cleanup_local_file(path) called directly, as the tests do
CleanupLocalFile ==
    /\ up_pc # "uploading"
    /\ cleanup_calls < MaxCleanupCalls
    /\ cleanup_calls' = cleanup_calls + 1
    /\ \E path \in FileNames :
         LET r == cleanup_local_file(test_mode, path, local_files, undeletable) IN
         /\ local_files' = r.local_files
         /\ cleanup_response' =
                [asked |-> TRUE, path |-> path, before |-> local_files,
                 after |-> r.local_files, unlink_raised |-> r.unlink_raised,
                 val |-> r.val, exc |-> r.exc]
    /\ UNCHANGED <<test_mode, dir_exists, oversized, bucket_ok, s3_failing,
                   undeletable, up_pc, scan_video_files, successful_uploads,
                   failed_uploads, upload_attempts, scan_result, scanned>>
    /\ UNCHANGED <<client_vars, web_vars, camera_vars, event_vars, registry_vars,
                   webui_vars, download_vars,
                   probe_vars, proc_vars, job_vars, angle_vars, env_vars, obs_vars>>

\* an uploader in either mode, and a directory (if any) with some files,
\* some of which cannot be validated, transferred or deleted
InitUploader ==
    /\ EngineIdle
    /\ ClientIdle /\ WebIdle /\ CameraIdle /\ EventsIdle
    /\ RegistryIdle /\ WebUiIdle /\ DownloadIdle
    /\ test_mode \in BOOLEAN
    /\ dir_exists \in BOOLEAN
    /\ local_files \in IF dir_exists THEN SUBSET FileNames ELSE {{}}
    /\ oversized \in SUBSET {"game1.mp4"}
    /\ bucket_ok \in BOOLEAN
    /\ s3_failing \in SUBSET {"game1.mp4", "game2.MP4"}
    /\ undeletable \in SUBSET {"game2.MP4"}
    /\ up_pc = "idle"
    /\ scan_video_files = <<>>
    /\ successful_uploads = <<>>
    /\ failed_uploads = <<>>
    /\ upload_attempts = [f \in FileNames |-> 0]
    /\ scan_result = None
    /\ cleanup_response = NoCleanup
    /\ cleanup_calls = 0
    /\ scanned = {}

NextUploader ==
    \/ ScanAndUploadDirectory
    \/ ScanUploadsNext
    \/ ScanReturns
    \/ CleanupLocalFile

SpecUploader == InitUploader /\ [][NextUploader]_vars

\* C31: a direct cleanup_local_file call never raises; in test mode it
\* returns True and the directory is as before; outside test mode it
\* returns True with the file gone when the deletion worked, and False
\* when the deletion failed.
C31_CleanupLocalFile ==
    cleanup_response.asked =>
        /\ ~cleanup_response.exc
        /\ test_mode =>
             /\ cleanup_response.val
             /\ cleanup_response.after = cleanup_response.before
        /\ ~test_mode /\ ~cleanup_response.unlink_raised =>
             /\ cleanup_response.val
             /\ cleanup_response.path \notin cleanup_response.after
             /\ cleanup_response.path \in cleanup_response.before
        /\ ~test_mode /\ cleanup_response.unlink_raised =>
             ~cleanup_response.val

\* a deletion failed in a direct call outside test mode
C31_Witness ==
    /\ cleanup_response.asked
    /\ ~test_mode
    /\ cleanup_response.unlink_raised
    /\ cleanup_response.path \in cleanup_response.before
    /\ ~cleanup_response.val

\* the video files of the directory, by the extension test of
\* validate_video_file
IsVideoFile(f) == lower(suffix(f)) \in supported_formats

\* the files upload_video returns True for
Uploadable(f) ==
    /\ validate_video_file(f, scanned, oversized)
    /\ bucket_ok
    /\ upload_with_progress(f, s3_failing)

\* the elements of a sequence
Range(s) == {s[i] : i \in 1..Len(s)}

\* C32: when scan_and_upload_directory has returned, every video file of
\* the directory was attempted exactly once, the returned list holds
\* exactly the video files upload_video returned True for, each once, and
\* it is empty when the directory is missing or holds no video file.
C32_ScanReturnsUploadedVideoFiles ==
    up_pc = "returned" =>
        LET videos == {f \in scanned : IsVideoFile(f)} IN
        /\ \A f \in videos : upload_attempts[f] = 1
        /\ \A f \in FileNames \ videos : upload_attempts[f] = 0
        /\ Range(scan_result.val) = {f \in videos : Uploadable(f)}
        /\ Len(scan_result.val) = Cardinality(Range(scan_result.val))
        /\ (~dir_exists \/ videos = {}) => scan_result.val = <<>>

(***************************************************************************)
(* main.py: the registry of input-video jobs (input_video_jobs), the       *)
(* requests that create, delete and start jobs, and the batches of         *)
(* process_input_jobs_parallel over the registered GameJob objects.  The   *)
(* angle pipeline is followed through the paths it works on; the           *)
(* subscriber of the progress messages is taken to return.                 *)
(***************************************************************************)
MaxObjects == 2
MaxBatches == 2

\* the date and game_number fields of a request body; game_number may
\* arrive as a JSON number or as a JSON string
RequestDates == {"10-02", "11-30"}
RequestGameNumbers ==
    {[type |-> "int", text |-> "1"], [type |-> "str", text |-> "1"],
     [type |-> "int", text |-> "2"]}

\* get_videos_by_date("input"): the dates that have videos, and the angles
\* found for them at the time of a request
DatesWithVideos == {"10-02"}
AngleSets == {{"farleft"}, {"farleft", "farright"}}

\* the formatting of a value inside an f-string
str(v) == v.text

\* GameJob.game_id = f"{date}_game{game_number}", as a sequence of pieces
game_id(date, game_number) == <<date, "_game", str(game_number)>>

\* the request bodies of the runs: every game number and angle set for
\* the date with videos, one body for the date without
CreateRequests ==
    {<<d, n, as>> \in RequestDates \X RequestGameNumbers \X AngleSets :
        d \notin DatesWithVideos => n.type = "int" /\ n.text = "1" /\ as = {"farleft"}}

\* the game_id of a DELETE request
AllGameIds == {game_id(q[1], q[2]) : q \in CreateRequests}

\* mutant: a segment name that leaves the angle out
segment_path_noangle(id, angle_full) ==
    <<"temp/segments/">> \o id \o <<"_segment.mp4">>

\* segments_dir / f"{job.game_id}_{angle_full}_segment.mp4"
segment_path(id, angle_full) ==
    <<"temp/segments/">> \o id \o <<"_", angle_full, "_segment.mp4">>

\* compressed_dir / f"{job.game_id}_{angle_full}.mp4"
compressed_path(id, angle_full) ==
    <<"temp/compressed/">> \o id \o <<"_", angle_full, ".mp4">>

Objects == DOMAIN job_objects

\* input_video_jobs.values()
Registered == {input_video_jobs[k] : k \in DOMAIN input_video_jobs}

\* mutant: every registered job is selected, whatever its status
PendingObjects_anystatus == Registered

\* [job for job in input_video_jobs.values() if job.status == "pending"]
PendingObjects == {o \in Registered : obj_status[o] = "pending"}

\* what the requests and tasks of the registry leave alone
registry_rest ==
    <<client_vars, camera_vars, event_vars, upload_vars, webui_vars,
      download_vars, probe_vars, override,
      gpu_available, batch_pc, total_jobs, completed_jobs, failed_jobs,
      job_vars, angle_vars, env_vars, obs_vars, status_response>>

\* create_input_job: a date without videos and a game_id that is already
\* registered are refused; otherwise the new GameJob is registered under
\* its game_id
CreateInputJob(date, game_number, angles) ==
    LET id == game_id(date, game_number)
        o == Len(job_objects) + 1 IN
    /\ IF date \notin DatesWithVideos
       THEN UNCHANGED <<job_objects, obj_status, input_video_jobs, game_task,
                        angle_task, selected>>
       ELSE IF id \in DOMAIN input_video_jobs
       THEN UNCHANGED <<job_objects, obj_status, input_video_jobs, game_task,
                        angle_task, selected>>
       ELSE /\ Len(job_objects) < MaxObjects
            /\ job_objects' = Append(job_objects, [game_id |-> id, video_files |-> angles])
            /\ obj_status' = Append(obj_status, "pending")
            /\ game_task' = Append(game_task, "none")
            /\ angle_task' = Append(angle_task, [a \in angles |-> "pending"])
            /\ selected' = Append(selected, 0)
            /\ input_video_jobs' =
                   [k \in DOMAIN input_video_jobs \cup {id} |->
                       IF k = id THEN o ELSE input_video_jobs[k]]
    /\ UNCHANGED <<batch_jobs, coord_pc, batches>>
    /\ UNCHANGED <<web_vars, max_concurrent, semaphore, registry_rest>>

\* delete_input_job: refused for a missing job and for one whose status is
\* "processing"; any other job is taken out of the dict
DeleteInputJob(id) ==
    /\ IF id \notin DOMAIN input_video_jobs
       THEN UNCHANGED input_video_jobs
       ELSE IF obj_status[input_video_jobs[id]] = "processing"
       THEN UNCHANGED input_video_jobs
       ELSE input_video_jobs' =
                [k \in DOMAIN input_video_jobs \ {id} |-> input_video_jobs[k]]
    /\ UNCHANGED <<job_objects, obj_status, batch_jobs, coord_pc, game_task,
                   angle_task, batches, selected>>
    /\ UNCHANGED <<web_vars, max_concurrent, semaphore, registry_rest>>

\* process_input_videos over the registry: an accepted request sets the
\* flag and creates the coordinator task with the pending jobs of now
StartBatch ==
    LET r == process_input_videos(input_processing_active, aws_configured,
                                  PendingObjects) IN
    /\ r.started => batches < MaxBatches
    /\ start_response' = r.response
    /\ input_processing_active' = r.active
    /\ IF r.started
       THEN /\ batch_jobs' = PendingObjects
            /\ coord_pc' = "created"
            /\ batches' = batches + 1
            /\ active_coordinators' = active_coordinators + 1
            /\ selected' = [o \in Objects |->
                               selected[o] + (IF o \in PendingObjects THEN 1 ELSE 0)]
       ELSE UNCHANGED <<batch_jobs, coord_pc, batches, active_coordinators, selected>>
    /\ UNCHANGED <<job_objects, obj_status, input_video_jobs, game_task,
                   angle_task>>
    /\ UNCHANGED <<aws_configured, max_concurrent, semaphore, registry_rest>>

\* the ceiling the resource probe gives in these runs
RegistryCeilings == {2}

\* process_input_jobs_parallel up to the gather of process_games: the
\* ParallelProcessor is built and one _process_game task per job is
\* created; an exception of the construction goes to the handlers
CoordinatorRuns ==
    /\ coord_pc = "created"
    /\ \E constructed_ok \in BOOLEAN, ceiling \in RegistryCeilings :
         IF constructed_ok
         THEN /\ max_concurrent' = ceiling
              /\ semaphore' = ceiling
              /\ game_task' = [o \in Objects |->
                                  IF o \in batch_jobs THEN "created" ELSE game_task[o]]
              /\ coord_pc' = "gathering"
         ELSE /\ coord_pc' = "failed"
              /\ UNCHANGED <<max_concurrent, semaphore, game_task>>
    /\ UNCHANGED <<job_objects, obj_status, input_video_jobs, batch_jobs,
                   angle_task, batches, selected>>
    /\ UNCHANGED <<web_vars, registry_rest>>

\* _process_game, first stretch: job.status = "processing"
GameTaskStarts(o) ==
    /\ game_task[o] = "created"
    /\ obj_status' = [obj_status EXCEPT ![o] = "processing"]
    /\ game_task' = [game_task EXCEPT ![o] = "gathering"]
    /\ UNCHANGED <<job_objects, input_video_jobs, batch_jobs, coord_pc,
                   angle_task, batches, selected>>
    /\ UNCHANGED <<web_vars, max_concurrent, semaphore, registry_rest>>

\* the positions at which an angle task holds a slot
RunningPcs == {"extracting", "compressing", "uploading segment", "uploading compressed"}

\* the task moves to position p; it gives its slot back when it ends
AngleMoves(o, a, p) ==
    /\ angle_task' = [angle_task EXCEPT ![o][a] = p]
    /\ semaphore' = IF p \in RunningPcs THEN semaphore ELSE semaphore + 1
    /\ UNCHANGED <<job_objects, obj_status, input_video_jobs, batch_jobs,
                   coord_pc, game_task, batches, selected>>
    /\ UNCHANGED <<web_vars, max_concurrent, registry_rest>>

\* _process_angle enters async with self.semaphore
AngleAcquires(o, a) ==
    /\ game_task[o] = "gathering"
    /\ angle_task[o][a] = "pending"
    /\ semaphore > 0
    /\ semaphore' = semaphore - 1
    /\ angle_task' = [angle_task EXCEPT ![o][a] = "extracting"]
    /\ UNCHANGED <<job_objects, obj_status, input_video_jobs, batch_jobs,
                   coord_pc, game_task, batches, selected>>
    /\ UNCHANGED <<web_vars, max_concurrent, registry_rest>>

\* extract_segment and get_resolution are over: failure, a small video
\* (upload the segment) or a 4K video (compress)
AngleExtracted(o, a) ==
    /\ angle_task[o][a] = "extracting"
    /\ \E p \in {"raised", "uploading segment", "compressing"} : AngleMoves(o, a, p)

\* compress_video is over: failure, or upload the compressed file
AngleCompressed(o, a) ==
    /\ angle_task[o][a] = "compressing"
    /\ \E p \in {"raised", "uploading compressed"} : AngleMoves(o, a, p)

\* upload_to_s3 and the unlink are over
AngleUploaded(o, a) ==
    /\ angle_task[o][a] \in {"uploading segment", "uploading compressed"}
    /\ \E p \in {"raised", "completed"} : AngleMoves(o, a, p)

\* _process_game after its gather: the status follows the failures
GameTaskFinishes(o) ==
    /\ game_task[o] = "gathering"
    /\ \A a \in job_objects[o].video_files : angle_task[o][a] \in {"raised", "completed"}
    /\ obj_status' =
          [obj_status EXCEPT ![o] =
              IF \E a \in job_objects[o].video_files : angle_task[o][a] = "raised"
              THEN "error" ELSE "completed"]
    /\ game_task' = [game_task EXCEPT ![o] = "done"]
    /\ UNCHANGED <<job_objects, input_video_jobs, batch_jobs, coord_pc,
                   angle_task, batches, selected>>
    /\ UNCHANGED <<web_vars, max_concurrent, semaphore, registry_rest>>

\* process_input_jobs_parallel, except and finally: the gather returned or
\* the construction raised; the flag is reset
CoordinatorEnds ==
    /\ \/ coord_pc = "failed"
       \/ /\ coord_pc = "gathering"
          /\ \A o \in batch_jobs : game_task[o] = "done"
    /\ coord_pc' = "ended"
    /\ input_processing_active' = FALSE
    /\ active_coordinators' = active_coordinators - 1
    /\ UNCHANGED <<job_objects, obj_status, input_video_jobs, batch_jobs,
                   game_task, angle_task, batches, selected>>
    /\ UNCHANGED <<aws_configured, start_response, max_concurrent, semaphore,
                   registry_rest>>

\* an empty registry, no batch
InitRegistry ==
    /\ EngineIdle
    /\ ClientIdle /\ CameraIdle /\ EventsIdle
    /\ UploaderIdle /\ WebUiIdle /\ DownloadIdle
    /\ RegistryIdle
    /\ aws_configured = TRUE
    /\ input_processing_active = FALSE
    /\ active_coordinators = 0
    /\ start_response = "none"
    /\ status_response = NoStatus

NextRegistry ==
    \/ \E q \in CreateRequests : CreateInputJob(q[1], q[2], q[3])
    \/ \E id \in AllGameIds : DeleteInputJob(id)
    \/ StartBatch
    \/ CoordinatorRuns
    \/ \E o \in Objects : GameTaskStarts(o)
    \/ \E o \in Objects : \E a \in job_objects[o].video_files : AngleAcquires(o, a)
    \/ \E o \in Objects : \E a \in job_objects[o].video_files : AngleExtracted(o, a)
    \/ \E o \in Objects : \E a \in job_objects[o].video_files : AngleCompressed(o, a)
    \/ \E o \in Objects : \E a \in job_objects[o].video_files : AngleUploaded(o, a)
    \/ \E o \in Objects : GameTaskFinishes(o)
    \/ CoordinatorEnds

SpecRegistry == InitRegistry /\ [][NextRegistry]_vars

\* the transient paths an angle task is working on at its position
InUse(o, a) ==
    LET id == job_objects[o].game_id IN
    CASE angle_task[o][a] = "extracting" -> {segment_path(id, a)}
      [] angle_task[o][a] = "compressing" ->
             {segment_path(id, a), compressed_path(id, a)}
      [] angle_task[o][a] = "uploading segment" -> {segment_path(id, a)}
      [] angle_task[o][a] = "uploading compressed" -> {compressed_path(id, a)}
      [] OTHER -> {}

AngleTasks == {t \in Objects \X {"farleft", "farright"} : t[2] \in job_objects[t[1]].video_files}

\* C33: two different angle tasks never work on the same segment path or
\* the same compressed path at the same time, every registered job is
\* registered under its own game_id, and no two entries of the registry
\* hold the same game_id or the same job.
C33_DistinctTransientPaths ==
    /\ \A t, u \in AngleTasks :
          t # u => InUse(t[1], t[2]) \cap InUse(u[1], u[2]) = {}
    /\ \A k \in DOMAIN input_video_jobs :
          job_objects[input_video_jobs[k]].game_id = k
    /\ \A k1, k2 \in DOMAIN input_video_jobs :
          k1 # k2 => input_video_jobs[k1] # input_video_jobs[k2]

\* two jobs of one batch work on the same angle at the same time, one of
\* them compressing
C33_Witness ==
    \E o, p \in batch_jobs :
        /\ o # p
        /\ "farleft" \in job_objects[o].video_files
        /\ "farleft" \in job_objects[p].video_files
        /\ angle_task[o]["farleft"] = "compressing"
        /\ angle_task[p]["farleft"] = "extracting"

\* a coordinator task was created and has not reset the flag yet
BatchActive == coord_pc \in {"created", "gathering", "failed"}

\* C34: while a batch is active, every job handed to it that is not yet
\* completed or in error is still in the registry: no delete request
\* removes it, whether or not its task has set its status to processing.
C34_BatchJobsStayRegistered ==
    BatchActive =>
        \A o \in batch_jobs :
            obj_status[o] \notin {"completed", "error"} => o \in Registered

StatusMoves ==
    {<<"pending", "processing">>, <<"processing", "completed">>,
     <<"processing", "error">>}

\* C35: in every step, a job's status either stays or moves along
\* pending -> processing -> completed / error; and a job that is completed
\* or in error keeps its status, is handed to no further batch, and none
\* of its tasks moves again.
C35_StatusOnlyMovesForward ==
    [][\A o \in Objects :
          /\ obj_status'[o] # obj_status[o] =>
                 <<obj_status[o], obj_status'[o]>> \in StatusMoves
          /\ obj_status[o] \in {"completed", "error"} =>
                 /\ obj_status'[o] = obj_status[o]
                 /\ selected'[o] = selected[o]
                 /\ game_task'[o] = game_task[o]
                 /\ angle_task'[o] = angle_task[o]]_vars

\* a second batch is running while a job that an earlier batch completed
\* is still registered
C35_Witness ==
    /\ batches = 2
    /\ coord_pc = "gathering"
    /\ \E o \in Registered \ batch_jobs :
          obj_status[o] = "completed" /\ selected[o] = 1
    /\ \E p \in batch_jobs : obj_status[p] = "processing"

\* a batch of a one-angle job and a two-angle job, with the ceilings 1 and 2
TransferJobLists == {<<AnglePrefix(1), AnglePrefix(2)>>}
TransferScenarios ==
    { <<Some(1), None, Raise, "not_found", TRUE>>,
      <<None, Some(8), Ret(4 * MemUnitsPerGB), "rc0", TRUE>> }
InitTransfer == InitWith(TransferScenarios, TransferJobLists, FALSE)
SpecTransfer == InitTransfer /\ [][Next]_vars

\* C36: in a batch whose destination keys were all absent, an angle whose
\* status is completed has its object in the bucket, put there by a
\* transfer attempt that succeeded, and a job whose status is completed
\* has the objects of all its angles there.
C36_CompletedMeansTransferred ==
    /\ \A t \in Tasks :
          angle_status[t[1]][t[2]] = "completed" => t \in s3_objects
    /\ \A j \in Jobs :
          job_status[j] = "completed" =>
              \A a \in video_files[j] : <<j, a>> \in s3_objects

\* a completed job next to a failed job one of whose angles was
\* transferred
C36_Witness ==
    \E j, k \in Jobs :
        /\ job_status[j] = "completed"
        /\ job_status[k] = "error"
        /\ \E a \in video_files[k] :
              angle_status[k][a] = "completed" /\ <<k, a>> \in s3_objects

\* C37: the flag is true exactly while a coordinator task has not passed
\* its finally, and while it is true the batch can always take a further
\* step towards that finally, so that the flag is reset and a later start
\* request is accepted.
C37_FlagResetAfterEveryBatch ==
    /\ input_processing_active <=> active_coordinators > 0
    /\ input_processing_active => ENABLED NextEvents

\* C38: once the game's status is complete or error, none of its angle
\* pipelines is still running, and none runs after process_all_games has
\* reset the flag.
C38_GameEndsAfterItsAngles ==
    /\ game_status \in {"complete", "error"} => CameraInFlight = {}
    /\ camera_pc = "finished" /\ ~processing_active => CameraInFlight = {}

(***************************************************************************)
(* web_ui.py: POST /upload.  app.run serves each request in a thread of    *)
(* its own; start_upload reads the flag and starts an upload_worker        *)
(* thread, and the worker sets the flag in its first statement and clears  *)
(* it in its last.                                                         *)
(***************************************************************************)
\* what the tasks of the web interface leave alone
webui_rest ==
    <<client_vars, web_vars, camera_vars, event_vars, upload_vars,
      registry_vars, download_vars, probe_vars, proc_vars, job_vars,
      angle_vars, env_vars, obs_vars>>

\* start_upload: if upload_status['is_uploading']: answer "Upload already
\* in progress"
UploadRequestChecks(r) ==
    /\ request_pc[r] = "none"
    /\ request_pc' = [request_pc EXCEPT ![r] =
                         IF is_uploading THEN "rejected" ELSE "checked"]
    /\ UNCHANGED <<is_uploading, upload_message, worker_pc, webui_rest>>

\* start_upload: threading.Thread(target=upload_worker).start(); an
\* exception of it is answered as an error
UploadRequestStartsThread(r) ==
    /\ request_pc[r] = "checked"
    /\ \E started \in BOOLEAN :
         IF started
         THEN /\ worker_pc' = [worker_pc EXCEPT ![r] = "started"]
              /\ request_pc' = [request_pc EXCEPT ![r] = "accepted"]
         ELSE /\ request_pc' = [request_pc EXCEPT ![r] = "failed"]
              /\ UNCHANGED worker_pc
    /\ UNCHANGED <<is_uploading, upload_message, webui_rest>>

\* upload_worker, first statement: upload_status.update(is_uploading=True)
UploadWorkerBegins(w) ==
    /\ worker_pc[w] = "started"
    /\ is_uploading' = TRUE
    /\ upload_message' = "Initializing upload..."
    /\ worker_pc' = [worker_pc EXCEPT ![w] = "uploading"]
    /\ UNCHANGED <<request_pc, webui_rest>>

\* upload_worker, after the uploads or in its except branch:
\* upload_status.update(is_uploading=False)
UploadWorkerEnds(w) ==
    /\ worker_pc[w] = "uploading"
    /\ is_uploading' = FALSE
    /\ \E m \in {"Upload complete!", "Upload failed"} : upload_message' = m
    /\ worker_pc' = [worker_pc EXCEPT ![w] = "done"]
    /\ UNCHANGED <<request_pc, webui_rest>>

InitWebUi ==
    /\ EngineIdle
    /\ AppIdle

NextWebUi ==
    \/ \E r \in Requests : UploadRequestChecks(r)
    \/ \E r \in Requests : UploadRequestStartsThread(r)
    \/ \E w \in Requests : UploadWorkerBegins(w)
    \/ \E w \in Requests : UploadWorkerEnds(w)

SpecWebUi == InitWebUi /\ [][NextWebUi]_vars

\* the upload_worker threads that were started and have not ended
LiveWorkers == {w \in Requests : worker_pc[w] \in {"started", "uploading"}}

\* C39: at most one upload worker is alive at any time.
C39_AtMostOneUploadWorker == Cardinality(LiveWorkers) <= 1

(***************************************************************************)
(* download_from_s3.py: download_file_with_resume.  Sizes are counted in   *)
(* chunks; the object served may differ in size from the listing the       *)
(* expected size was taken from.                                           *)
(***************************************************************************)
\* MAX_RETRIES of download_from_s3.py
DOWNLOAD_MAX_RETRIES == 10
\* expected sizes run over 0..MaxChunks
MaxChunks == 2

\* mutant: a local file larger than expected is kept and reported as partial
check_file_exists_noremove(lf, expected) ==
    IF ~lf.some THEN [exists |-> FALSE, local_size |-> 0, local_file |-> lf]
    ELSE IF lf.val = expected
    THEN [exists |-> TRUE, local_size |-> lf.val, local_file |-> lf]
    ELSE [exists |-> FALSE, local_size |-> lf.val, local_file |-> lf]

\* check_file_exists: (exists, local_size), and the local file afterwards:
\* a file larger than expected is removed
check_file_exists(lf, expected) ==
    IF ~lf.some THEN [exists |-> FALSE, local_size |-> 0, local_file |-> lf]
    ELSE IF lf.val = expected
    THEN [exists |-> TRUE, local_size |-> lf.val, local_file |-> lf]
    ELSE IF lf.val < expected
    THEN [exists |-> FALSE, local_size |-> lf.val, local_file |-> lf]
    ELSE [exists |-> FALSE, local_size |-> 0, local_file |-> None]

\* what a download_file_with_resume call leaves alone
download_rest ==
    <<client_vars, web_vars, camera_vars, event_vars, upload_vars,
      registry_vars, webui_vars, probe_vars, proc_vars, job_vars, angle_vars,
      env_vars, obs_vars>>

\* the call up to its loop: a complete file is answered True at once
DownloadCalled ==
    /\ dl_pc = "called"
    /\ LET c == check_file_exists(local_file, expected_size) IN
       /\ local_file' = c.local_file
       /\ IF c.exists
          THEN dl_pc' = "returned" /\ dl_result' = TRUE
          ELSE dl_pc' = "loop" /\ UNCHANGED dl_result
    /\ UNCHANGED <<expected_size, server_size, dl_attempt, request_count,
                   last_request, download_rest>>

\* an except branch of the loop: sleep and go on, or return False on the
\* last attempt
DownloadRetries ==
    IF dl_attempt < DOWNLOAD_MAX_RETRIES - 1
    THEN dl_attempt' = dl_attempt + 1 /\ UNCHANGED <<dl_pc, dl_result>>
    ELSE dl_pc' = "returned" /\ dl_result' = FALSE /\ UNCHANGED dl_attempt

\* the sizes differ after a complete stream: the next iteration, or the
\* return False after the loop
DownloadSizeMismatch ==
    /\ dl_attempt' = dl_attempt + 1
    /\ IF dl_attempt + 1 < DOWNLOAD_MAX_RETRIES
       THEN UNCHANGED <<dl_pc, dl_result>>
       ELSE dl_pc' = "returned" /\ dl_result' = FALSE

\* one iteration of the loop: check the file, request the rest of the
\* object (with Range when something is there), write what arrives, and
\* compare the sizes
DownloadAttempt ==
    /\ dl_pc = "loop"
    /\ dl_attempt < DOWNLOAD_MAX_RETRIES
    /\ LET c == check_file_exists(local_file, expected_size)
           byte_range == IF c.local_size > 0 THEN Some(c.local_size) ELSE None
           mode == IF c.local_size > 0 THEN "ab" ELSE "wb" IN
       IF c.exists
       THEN /\ dl_pc' = "returned" /\ dl_result' = TRUE
            /\ local_file' = c.local_file
            /\ UNCHANGED <<dl_attempt, request_count, last_request>>
       ELSE /\ request_count' = request_count + 1
            /\ last_request' =
                   [before |-> local_file, range_start |-> byte_range, mode |-> mode]
            /\ \/ \* get_object raises: a connection error, or InvalidRange
                  /\ local_file' = c.local_file
                  /\ DownloadRetries
               \/ \* KeyboardInterrupt is raised again
                  /\ local_file' = c.local_file
                  /\ dl_pc' = "raised"
                  /\ UNCHANGED <<dl_attempt, dl_result>>
               \/ \* a response: got chunks arrive, then the stream ends or breaks
                  /\ byte_range.some => c.local_size < server_size
                  /\ \E got \in 0..(server_size - c.local_size), broke \in BOOLEAN :
                       /\ got < server_size - c.local_size => broke
                       /\ local_file' = Some(c.local_size + got)
                       /\ IF broke THEN DownloadRetries
                          ELSE IF c.local_size + got = expected_size
                          THEN /\ dl_pc' = "returned" /\ dl_result' = TRUE
                               /\ UNCHANGED dl_attempt
                          ELSE DownloadSizeMismatch
    /\ UNCHANGED <<expected_size, server_size, download_rest>>

\* a call for a key whose local file is missing, partial, complete or too
\* large
InitDownload ==
    /\ EngineIdle
    /\ ClientIdle /\ WebIdle /\ CameraIdle /\ EventsIdle
    /\ UploaderIdle /\ RegistryIdle /\ WebUiIdle
    /\ expected_size \in 0..MaxChunks
    /\ server_size \in 0..(MaxChunks + 1)
    /\ local_file \in {None} \cup {Some(n) : n \in 0..(MaxChunks + 1)}
    /\ dl_attempt = 0
    /\ dl_pc = "called"
    /\ dl_result = FALSE
    /\ request_count = 0
    /\ last_request = NoRequest

NextDownload ==
    \/ DownloadCalled
    \/ DownloadAttempt

SpecDownload == InitDownload /\ [][NextDownload]_vars

\* the request made for a local file: from its size on when it is a
\* proper part of the expected size, from the beginning otherwise
ResumesFrom(lf) ==
    IF lf.some /\ lf.val > 0 /\ lf.val < expected_size
    THEN [range_start |-> Some(lf.val), mode |-> "ab"]
    ELSE [range_start |-> None, mode |-> "wb"]

\* C40: True is returned only with a local file of the expected size; a
\* call that finds the file complete returns True with no request made;
\* at most MAX_RETRIES requests are made, each for the part after the
\* local file as it was when the attempt began (from the beginning when
\* it was missing, empty or larger than expected); False is returned only
\* after MAX_RETRIES requests.
C40_DownloadWithResume ==
    /\ [](/\ dl_pc = "returned" /\ dl_result => local_file = Some(expected_size)
          /\ request_count <= DOWNLOAD_MAX_RETRIES
          /\ dl_pc = "returned" /\ ~dl_result => request_count = DOWNLOAD_MAX_RETRIES
          /\ request_count > 0 =>
                /\ last_request.before # Some(expected_size)
                /\ last_request.range_start = ResumesFrom(last_request.before).range_start
                /\ last_request.mode = ResumesFrom(last_request.before).mode)
    /\ [][dl_pc = "called" /\ local_file = Some(expected_size) =>
             /\ dl_pc' = "returned" /\ dl_result'
             /\ request_count' = 0
             /\ local_file' = local_file]_vars

\* True after three requests, the last one a resume from the first chunk
C40_Witness ==
    /\ dl_pc = "returned" /\ dl_result
    /\ request_count = 3
    /\ last_request.range_start = Some(1)
    /\ expected_size = 2

=============================================================================
